---- MODULE Spec2Model ----
(***************************************************************************)
(* A model of thunder/tests/opinfos.py: the condition matchers            *)
(* (DecorateInfo), the operator records (OpInfo) that own them, and the    *)
(* sample generators.                                                      *)
(*                                                                         *)
(* Python values are modelled as records tagged with their type in the     *)
(* field "kind": None, str, tuple, set.  A str whose characters matter     *)
(* (an executor name, on which `in` may be a substring test) is a          *)
(* sequence of one-character strings; test names and device types, which  *)
(* the code only compares for equality or looks up in tuples, are atoms.   *)
(***************************************************************************)
EXTENDS Integers, Sequences, FiniteSets, TLC

VARIABLES
    nvFuser_version,   \* patch number p of nvFuser().version() = "0.0.p"
    torch_version,     \* minor number m of torch.__version__ = "1.m"
    test_directives,   \* record name -> its tuple of DecorateInfo (OpInfo.test_directives)
    call,              \* the last query made, with its arguments
    ret,               \* the outcome of the last query
    gen,               \* the frame of the sample generator in progress
    yielded,           \* what the last pull on the generator delivered
    delivered,         \* the samples the caller has received from it, in order
    opinfos,           \* the registry: the list of the OpInfo records
    rng,               \* draws made from torch's default random generator
    capacity,          \* elements a device has room for
    consumers,         \* consumer -> its sample sequence and what it has received
    transform,         \* the last derived-copy call: receiver before and after, outcome
    loading            \* the load of the module: the statement reached, the records
                       \* constructed and the category lists

selvars == <<nvFuser_version, torch_version, test_directives, call, ret>>

genvars == <<gen, yielded, delivered>>

extvars == <<opinfos, rng, capacity, consumers, transform, loading>>

vars == <<selvars, genvars, extvars>>

----------------------------------------------------------------------------
(* Python values *)

None == [kind |-> "None"]

Str(chars) == [kind |-> "str", val |-> chars]

Tuple(items) == [kind |-> "tuple", val |-> items]

PyList(items) == [kind |-> "list", val |-> items]

IsNone(x) == x.kind = "None"

\* x is a contiguous part of s (Python: x in s, for two str)
IsSubstr(x, s) ==
    \E i \in 0..(Len(s) - Len(x)) : SubSeq(s, i + 1, i + Len(x)) = x

\* Python's `x in container` for the containers DecorateInfo is given:
\* a tuple is searched for an equal item, a str for a substring, a set for a member.
PyIn(x, container) ==
    CASE container.kind = "tuple" -> \E i \in 1..Len(container.val) : container.val[i] = x
      [] container.kind = "str"   -> IsSubstr(x, container.val)
      [] container.kind = "set"   -> x \in container.val

\* `x in container` raises TypeError when the container is None (not iterable)
PyInRaises(x, container) == container.kind = "None"

----------------------------------------------------------------------------
(* Executor names (framework executors' .name) *)

nvFuserName == <<"n", "v", "F", "u", "s", "e", "r">>

TorchExName == <<"T", "o", "r", "c", "h", "E", "x">>

\* the value of the expression ("nvFuser,") of pow_opinfo and remainder_torch_opinfo:
\* parentheses around one string literal, so a str, not a tuple
nvFuserCommaStr == Str(<<"n", "v", "F", "u", "s", "e", "r", ",">>)

----------------------------------------------------------------------------
(* thunder.core.dtypes *)

complexfloating == {"complex32", "complex64", "complex128"}

boolean_dtypes == {"bool8"}

signedinteger == {"int64"}

unsignedinteger == {"uint8"}

exact == boolean_dtypes \cup signedinteger \cup unsignedinteger

floating == {"bfloat16", "float16", "float32"}

inexact == floating \cup complexfloating

AllDtypes == exact \cup inexact

\* a Python set
PySet(members) == [kind |-> "set", val |-> members]

\* one concrete dtype, as an item of a dtypes= tuple
Dtype(d) == [kind |-> "dtype", val |-> {d}]

\* a dtype category (datatypes.complexfloating, ...), as an item of a dtypes= tuple
Category(members) == [kind |-> "category", val |-> members]

\* datatypes.resolve_dtypes over a tuple of dtypes and dtype categories, or over
\* a set of dtypes: the set of the concrete dtypes named, each category giving
\* its members
resolve_dtypes(args) ==
    CASE args.kind = "tuple" -> UNION { args.val[i].val : i \in 1..Len(args.val) }
      [] args.kind = "set"   -> args.val

----------------------------------------------------------------------------
(* DecorateInfo *)

DecorateInfo(decorator, test_template_name, executors, devicetypes, dtypes, active_if) ==
    [decorator          |-> decorator,
     test_template_name |-> test_template_name,
     executors          |-> executors,
     devicetypes        |-> devicetypes,
     dtypes             |-> IF IsNone(dtypes) THEN None
                            ELSE [kind |-> "set", val |-> resolve_dtypes(dtypes)],
     active_if          |-> active_if]

\* The candidate of a query: executor is the executor object, of which only .name is read
Candidate(test_template_name, executor, devicetype, dtype) ==
    [test_template_name |-> test_template_name,
     executor           |-> executor,
     devicetype         |-> devicetype,
     dtype              |-> dtype]

\* as is_active, but an absent devicetypes filter stands for ("cpu",)
is_active_default_cpu(self, c) ==
    /\ self.active_if
    /\ (IsNone(self.executors) \/ PyIn(c.executor.name, self.executors))
    /\ (IsNone(self.test_template_name) \/ self.test_template_name.val = c.test_template_name)
    /\ (IF IsNone(self.devicetypes) THEN c.devicetype = "cpu"
        ELSE PyIn(c.devicetype, self.devicetypes))
    /\ (IsNone(self.dtypes) \/ PyIn(c.dtype, self.dtypes))

\* as is_active, but the dtypes filter is not consulted
is_active_no_dtypes(self, c) ==
    /\ self.active_if
    /\ (IsNone(self.executors) \/ PyIn(c.executor.name, self.executors))
    /\ (IsNone(self.test_template_name) \/ self.test_template_name.val = c.test_template_name)
    /\ (IsNone(self.devicetypes) \/ PyIn(c.devicetype, self.devicetypes))

is_active(self, c) ==
    /\ self.active_if
    /\ (IsNone(self.executors) \/ PyIn(c.executor.name, self.executors))
    /\ (IsNone(self.test_template_name) \/ self.test_template_name.val = c.test_template_name)
    /\ (IsNone(self.devicetypes) \/ PyIn(c.devicetype, self.devicetypes))
    /\ (IsNone(self.dtypes) \/ PyIn(c.dtype, self.dtypes))

\* is_active ends in an exception when one of the `in` tests it reaches raises
\* (`and` and `or` short-circuit from left to right)
is_active_raises(self, c) ==
    /\ self.active_if
    /\ \/ (~IsNone(self.executors) /\ PyInRaises(c.executor.name, self.executors))
       \/ /\ (IsNone(self.executors) \/ PyIn(c.executor.name, self.executors))
          /\ (IsNone(self.test_template_name) \/ self.test_template_name.val = c.test_template_name)
          /\ \/ (~IsNone(self.devicetypes) /\ PyInRaises(c.devicetype, self.devicetypes))
             \/ /\ (IsNone(self.devicetypes) \/ PyIn(c.devicetype, self.devicetypes))
                /\ ~IsNone(self.dtypes)
                /\ PyInRaises(c.dtype, self.dtypes)

----------------------------------------------------------------------------
(* The matchers registered at module load *)

xfail == "pytest.mark.xfail"

skip == "pytest.mark.skip"

consistency == Str("test_core_vs_torch_consistency")

vjp == Str("test_vjp_correctness")

acos_directives ==
    << DecorateInfo(xfail, consistency, None, Tuple(<<"cpu">>),
                    Tuple(<<Dtype("float16"), Dtype("complex32")>>), TRUE) >>

acosh_directives(nv) ==
    << DecorateInfo(xfail, consistency, None, Tuple(<<"cpu">>),
                    Tuple(<<Dtype("float16"), Dtype("complex32")>>), TRUE),
       DecorateInfo(xfail, None, Tuple(<<nvFuserName>>), None, None, nv < 3) >>

pow_directives ==
    << DecorateInfo(xfail, consistency, None, None, Tuple(<<Dtype("bool8")>>), TRUE),
       DecorateInfo(skip, consistency, None, None, Tuple(<<Dtype("complex32")>>), TRUE),
       DecorateInfo(xfail, consistency, nvFuserCommaStr, None,
                    Tuple(<<Dtype("complex64"), Dtype("complex128")>>), TRUE) >>

remainder_torch_directives ==
    << DecorateInfo(xfail, consistency, None, None,
                    Tuple(<<Dtype("bool8"), Category(complexfloating)>>), TRUE),
       DecorateInfo(xfail, consistency, nvFuserCommaStr, None,
                    Tuple(<<Dtype("float16"), Dtype("bfloat16")>>), TRUE) >>

getitem_directives ==
    << DecorateInfo(xfail, vjp, None, None, None, TRUE) >>

prod_directives(nv) ==
    << DecorateInfo(skip, consistency, None, Tuple(<<"cpu">>),
                    Tuple(<<Dtype("complex32"), Dtype("float16")>>), TRUE),
       DecorateInfo(xfail, None, Tuple(<<nvFuserName>>), None,
                    Tuple(<<Category(complexfloating)>>), TRUE),
       DecorateInfo(xfail, None, Tuple(<<nvFuserName>>), None, None, nv < 4) >>

sum_directives(tv) ==
    << DecorateInfo(xfail, consistency, None, Tuple(<<"cpu">>),
                    Tuple(<<Dtype("complex32")>>), TRUE),
       DecorateInfo(xfail, None, Tuple(<<nvFuserName>>), None,
                    Tuple(<<Category(complexfloating)>>), TRUE),
       DecorateInfo(skip, consistency, None, None, None, tv < 13) >>

RecordNames ==
    {"acos", "acosh", "pow", "remainder", "getitem", "prod", "sum"}

\* OpInfo.test_directives of the modelled records, as module load leaves them
\* under nvFuser 0.0.<nv> and torch 1.<tv>
LoadedDirectives(nv, tv) ==
    [n \in RecordNames |->
        CASE n = "acos"      -> acos_directives
          [] n = "acosh"     -> acosh_directives(nv)
          [] n = "pow"       -> pow_directives
          [] n = "remainder" -> remainder_torch_directives
          [] n = "getitem"   -> getitem_directives
          [] n = "prod"      -> prod_directives(nv)
          [] n = "sum"       -> sum_directives(tv)]

----------------------------------------------------------------------------
(* Numbers.  A real value is held as a whole number of hundredths, the size *)
(* of eps, so that -1 + eps and 0.3 are exact.                              *)

UnitsPerOne == 100

eps == 1

Num(v) == [kind |-> "num", val |-> v]

\* math.inf, and -math.inf
PosInf == [kind |-> "inf", val |-> 1]

NegInf == [kind |-> "inf", val |-> -1]

\* a < b for two numbers, either of which may be infinite
NumLt(a, b) ==
    CASE a.kind = "num" /\ b.kind = "num" -> a.val < b.val
      [] a.kind = "num" /\ b.kind = "inf" -> b.val > 0
      [] a.kind = "inf" /\ b.kind = "num" -> a.val < 0
      [] a.kind = "inf" /\ b.kind = "inf" -> a.val < b.val

\* Python's max(a, b) and min(a, b): the first argument unless the second beats it
PyMax(a, b) == IF NumLt(a, b) THEN b ELSE a

PyMin(a, b) == IF NumLt(b, a) THEN b ELSE a

----------------------------------------------------------------------------
(* The operator records (OpInfo) and the registry opinfos *)

Domain(low, high) == [low |-> low, high |-> high]

\* the operator callable, of which OpInfo.__init__ reads only __name__
Op(name) == [name |-> name]

\* thunder.tests.framework._all_device_types(): the device types of the process
_all_device_types == Tuple(<<"cpu", "cuda">>)

\* a generator function, and functools.partial of one with a keyword bound
Function(fn) == [kind |-> "function", fn |-> fn, supports_numbers |-> TRUE,
                 exclude_zero |-> FALSE]

partial(fn, keyword, value) ==
    [kind             |-> "function",
     fn               |-> fn,
     supports_numbers |-> IF keyword = "supports_numbers" THEN value ELSE TRUE,
     exclude_zero     |-> IF keyword = "exclude_zero" THEN value ELSE FALSE]

\* OpInfo.__init__: the fields the queries and the generators read
OpInfo(op, name, devicetypes, dtypes, sample_input_generator, error_input_generator, benchmark_generator, domain) ==
    [name                   |-> IF IsNone(name) THEN op.name ELSE name.val,
     _devicetypes           |-> IF IsNone(devicetypes) THEN _all_device_types
                                ELSE devicetypes,
     _dtypes                |-> IF IsNone(dtypes)
                                THEN Tuple(<<Category(exact), Category(inexact)>>)
                                ELSE dtypes,
     sample_input_generator |-> sample_input_generator,
     error_input_generator  |-> error_input_generator,
     benchmark_generator    |-> benchmark_generator,
     domain                 |-> Domain(domain[1], domain[2])]

\* ElementwiseUnaryOpInfo.__init__: OpInfo.__init__ with the unary benchmarks,
\* whatever benchmark_generator is given
ElementwiseUnaryOpInfo(op, sample_input_generator, benchmark_generator) ==
    OpInfo(op, None, None, None, sample_input_generator, None,
           Function("elementwise_unary_benchmarks"), <<None, None>>)

\* elementwise_unary_ops after module load, in the order of the append calls
elementwise_unary_ops ==
    << ElementwiseUnaryOpInfo(Op("abs"), Function("elementwise_unary_generator"),
                              Function("elementwise_unary_benchmarks")),
       OpInfo(Op("acos"), None, None, None,
              Function("elementwise_unary_generator"), None, None,
              <<Num(-1 * UnitsPerOne), Num(1 * UnitsPerOne)>>),
       OpInfo(Op("acosh"), None, None, None,
              Function("elementwise_unary_generator"), None, None,
              <<Num(1 * UnitsPerOne), PosInf>>),
       OpInfo(Op("asin"), None, None, None,
              Function("elementwise_unary_generator"), None, None,
              <<Num(-1 * UnitsPerOne), Num(1 * UnitsPerOne)>>),
       OpInfo(Op("asinh"), None, None, None,
              Function("elementwise_unary_generator"), None, None,
              <<None, None>>),
       OpInfo(Op("atan"), None, None, None,
              Function("elementwise_unary_generator"), None, None,
              <<None, None>>),
       OpInfo(Op("atanh"), None, None, None,
              Function("elementwise_unary_generator"), None, None,
              <<Num(-1 * UnitsPerOne + eps), Num(1 * UnitsPerOne - eps)>>),
       OpInfo(Op("bitwise_not"), None, None, Tuple(<<Category(exact)>>),
              Function("elementwise_unary_generator"), None, None,
              <<None, None>>),
       OpInfo(Op("ceil"), None, None, Tuple(<<Category(floating), Category(exact)>>),
              Function("elementwise_unary_generator"), None, None,
              <<None, None>>),
       OpInfo(Op("cos"), None, None, None,
              Function("elementwise_unary_generator"), None, None,
              <<None, None>>),
       OpInfo(Op("cosh"), None, None, None,
              Function("elementwise_unary_generator"), None, None,
              <<None, None>>),
       OpInfo(Op("erf"), None, None, None,
              Function("elementwise_unary_generator"), None, None,
              <<None, None>>),
       OpInfo(Op("erfc"), None, None, None,
              Function("elementwise_unary_generator"), None, None,
              <<None, None>>),
       OpInfo(Op("erfcinv"), None, None, Tuple(<<Category(floating)>>),
              partial("elementwise_unary_generator", "supports_numbers", FALSE), None, None,
              <<Num(30 * eps), Num(70 * eps)>>),
       OpInfo(Op("erfinv"), None, None, None,
              partial("elementwise_unary_generator", "supports_numbers", FALSE), None, None,
              <<Num(-1 * UnitsPerOne), Num(1 * UnitsPerOne)>>),
       OpInfo(Op("exp"), None, None, None,
              Function("elementwise_unary_generator"), None, None,
              <<None, None>>),
       OpInfo(Op("exp2"), None, None, None,
              partial("elementwise_unary_generator", "supports_numbers", FALSE), None, None,
              <<None, None>>),
       OpInfo(Op("expm1"), None, None, None,
              Function("elementwise_unary_generator"), None, None,
              <<None, None>>),
       OpInfo(Op("floor"), None, None, Tuple(<<Category(floating), Category(exact)>>),
              Function("elementwise_unary_generator"), None, None,
              <<None, None>>),
       OpInfo(Op("isfinite"), None, None, None,
              Function("elementwise_unary_generator"), None, None,
              <<None, None>>),
       OpInfo(Op("rsqrt"), None, None, None,
              partial("elementwise_unary_generator", "exclude_zero", TRUE), None, None,
              <<Num(0), PosInf>>),
       OpInfo(Op("silu"), None, None, Tuple(<<Category(floating)>>),
              partial("elementwise_unary_generator", "supports_numbers", FALSE), None, None,
              <<None, None>>),
       OpInfo(Op("sigmoid"), None, None, None,
              Function("elementwise_unary_generator"), None, None,
              <<None, None>>),
       OpInfo(Op("sign"), None, None, None,
              Function("elementwise_unary_generator"), None, None,
              <<None, None>>),
       OpInfo(Op("sin"), None, None, None,
              Function("elementwise_unary_generator"), None, None,
              <<None, None>>),
       OpInfo(Op("sinh"), None, None, None,
              Function("elementwise_unary_generator"), None, None,
              <<None, None>>),
       OpInfo(Op("sqrt"), None, None, None,
              Function("elementwise_unary_generator"), None, None,
              <<Num(0), PosInf>>),
       OpInfo(Op("tan"), None, None, None,
              Function("elementwise_unary_generator"), None, None,
              <<None, None>>),
       OpInfo(Op("tanh"), None, None, None,
              Function("elementwise_unary_generator"), None, None,
              <<None, None>>),
       OpInfo(Op("lgamma"), None, None, None,
              partial("elementwise_unary_generator", "exclude_zero", TRUE), None, None,
              <<Num(-1 * UnitsPerOne + eps), PosInf>>),
       OpInfo(Op("log"), None, None, None,
              partial("elementwise_unary_generator", "exclude_zero", TRUE), None, None,
              <<Num(0), PosInf>>),
       OpInfo(Op("log10"), None, None, None,
              partial("elementwise_unary_generator", "exclude_zero", TRUE), None, None,
              <<Num(0), PosInf>>),
       OpInfo(Op("log1p"), None, None, None,
              Function("elementwise_unary_generator"), None, None,
              <<Num(-1 * UnitsPerOne + eps), PosInf>>),
       OpInfo(Op("log2"), None, None, None,
              partial("elementwise_unary_generator", "exclude_zero", TRUE), None, None,
              <<Num(0), PosInf>>),
       OpInfo(Op("neg"), None, None, PySet(AllDtypes \ boolean_dtypes),
              Function("elementwise_unary_generator"), None, None,
              <<None, None>>),
       OpInfo(Op("ndtri"), None, None, None,
              partial("elementwise_unary_generator", "supports_numbers", FALSE), None, None,
              <<None, None>>),
       OpInfo(Op("reciprocal"), None, None, None,
              Function("elementwise_unary_generator"), None, None,
              <<Num(0 + eps), PosInf>>),
       OpInfo(Op("round"), None, None, Tuple(<<Category(floating), Category(exact)>>),
              partial("elementwise_unary_generator", "supports_numbers", FALSE), None, None,
              <<None, None>>),
       OpInfo(Op("trunc"), None, None, Tuple(<<Category(floating), Category(exact)>>),
              Function("elementwise_unary_generator"), None, None,
              <<None, None>>) >>

\* elementwise_binary_ops after module load, in the order of the append calls
elementwise_binary_ops ==
    << OpInfo(Op("add"), None, None, None,
              Function("elementwise_binary_generator"), None, None,
              <<None, None>>),
       OpInfo(Op("bitwise_and"), None, None, Tuple(<<Category(exact)>>),
              Function("elementwise_binary_generator"), None, None,
              <<None, None>>),
       OpInfo(Op("eq"), None, None, None,
              Function("elementwise_comparison_generator"), None, None,
              <<None, None>>),
       OpInfo(Op("fmod"), None, None, None,
              partial("elementwise_binary_generator", "exclude_zero", TRUE), None, None,
              <<None, None>>),
       OpInfo(Op("ge"), None, None, Tuple(<<Category(exact), Category(floating)>>),
              Function("elementwise_comparison_generator"), None, None,
              <<None, None>>),
       OpInfo(Op("lt"), None, None, Tuple(<<Category(exact), Category(floating)>>),
              Function("elementwise_comparison_generator"), None, None,
              <<None, None>>),
       OpInfo(Op("mul"), None, None, None,
              Function("elementwise_binary_generator"), None, None,
              <<None, None>>),
       OpInfo(Op("nextafter"), None, None, Tuple(<<Category(floating)>>),
              Function("elementwise_binary_generator"), None, None,
              <<None, None>>),
       OpInfo(Op("pow"), None, None, None,
              Function("elementwise_binary_generator"), None, None,
              <<None, None>>),
       OpInfo(Op("remainder"), Str("remainder_prim"), None, None,
              partial("elementwise_binary_generator", "exclude_zero", TRUE), None, None,
              <<None, None>>),
       OpInfo(Op("remainder"), None, None, None,
              partial("elementwise_binary_generator", "exclude_zero", TRUE), None, None,
              <<None, None>>),
       OpInfo(Op("sub"), None, None, None,
              Function("elementwise_binary_generator"), None, None,
              <<None, None>>),
       OpInfo(Op("true_divide"), None, None, None,
              Function("elementwise_binary_generator"), None, None,
              <<None, None>>) >>

\* elementwise_ternary_ops after module load, in the order of the append calls
elementwise_ternary_ops ==
    << OpInfo(Op("masked_fill"), None, None, None,
              Function("masked_fill_sample_generator"), None, None,
              <<None, None>>),
       OpInfo(Op("where"), None, None, None,
              Function("where_sample_generator"), None, None,
              <<None, None>>) >>

\* shape_ops after module load, in the order of the append calls
shape_ops ==
    << OpInfo(Op("broadcast_in_dim"), None, None, None,
              Function("broadcast_in_dim_sample_generator"), Function("broadcast_in_dim_error_generator"), None,
              <<None, None>>),
       OpInfo(Op("getitem"), None, None, None,
              Function("getitem_sample_generator"), None, None,
              <<None, None>>),
       OpInfo(Op("reshape"), None, None, None,
              Function("reshape_sample_generator"), None, None,
              <<None, None>>),
       OpInfo(Op("pad"), None, None, None,
              Function("pad_sample_generator"), None, None,
              <<None, None>>),
       OpInfo(Op("slice_in_dim"), None, None, None,
              Function("slice_in_dim_sample_generator"), None, None,
              <<None, None>>),
       OpInfo(Op("slice_prim"), Str("slice_prim"), None, None,
              Function("slice_prim_sample_generator"), None, None,
              <<None, None>>),
       OpInfo(Op("split"), None, None, None,
              Function("split_sample_generator"), None, None,
              <<None, None>>),
       OpInfo(Op("squeeze"), Str("squeeze_torch"), None, None,
              Function("squeeze_torch_sample_generator"), None, None,
              <<None, None>>),
       OpInfo(Op("squeeze"), None, None, None,
              Function("squeeze_sample_generator"), None, None,
              <<None, None>>),
       OpInfo(Op("tensor_split"), None, None, None,
              Function("tensor_split_sample_generator"), None, None,
              <<None, None>>),
       OpInfo(Op("transpose"), Str("torch_transpose"), None, None,
              Function("transpose_torch_sample_generator"), None, None,
              <<None, None>>),
       OpInfo(Op("transpose"), None, None, None,
              Function("transpose_sample_generator"), None, None,
              <<None, None>>),
       OpInfo(Op("take"), None, None, None,
              Function("take_sample_generator"), None, None,
              <<None, None>>),
       OpInfo(Op("take_along_axis"), None, None, None,
              Function("take_along_axis_sample_generator"), None, None,
              <<None, None>>),
       OpInfo(Op("unsqueeze"), None, None, None,
              Function("unsqueeze_sample_generator"), None, None,
              <<None, None>>),
       OpInfo(Op("convert_element_type"), None, None, None,
              Function("convert_element_type_sample_generator"), None, None,
              <<None, None>>) >>

\* reduction_ops after module load, in the order of the append calls
reduction_ops ==
    << OpInfo(Op("amax"), None, None, Tuple(<<Category(exact), Category(floating)>>),
              Function("amax_amin_sample_generator"), None, None,
              <<None, None>>),
       OpInfo(Op("amin"), None, None, Tuple(<<Category(exact), Category(floating)>>),
              Function("amax_amin_sample_generator"), None, None,
              <<None, None>>),
       OpInfo(Op("prod"), None, None, None,
              Function("reduction_sample_generator"), None, None,
              <<None, None>>),
       OpInfo(Op("sum"), None, None, None,
              Function("reduction_sample_generator"), None, None,
              <<None, None>>),
       OpInfo(Op("mean"), None, None, Tuple(<<Category(floating), Category(complexfloating)>>),
              Function("reduction_sample_generator"), None, None,
              <<None, None>>),
       OpInfo(Op("var_mean"), None, None, Tuple(<<Category(floating)>>),
              Function("var_sample_generator"), None, None,
              <<None, None>>) >>

\* tensor_creation_ops after module load, in the order of the append calls
tensor_creation_ops ==
    << OpInfo(Op("arange"), None, None, Tuple(<<Category(signedinteger), Category(unsignedinteger), Category(floating)>>),
              Function("arange_sample_generator"), None, None,
              <<None, None>>),
       OpInfo(Op("full"), None, None, None,
              Function("full_sample_generator"), None, None,
              <<None, None>>),
       OpInfo(Op("empty"), None, None, None,
              Function("empty_sample_generator"), None, None,
              <<None, None>>) >>

\* matmul_ops after module load, in the order of the append calls
matmul_ops ==
    << OpInfo(Op("matmul"), None, None, Tuple(<<Category(floating), Category(complexfloating)>>),
              Function("matmul_sample_generator"), None, None,
              <<None, None>>),
       OpInfo(Op("linear"), None, None, Tuple(<<Category(floating), Category(complexfloating)>>),
              Function("linear_sample_generator"), None, None,
              <<None, None>>) >>

\* nn_ops after module load, in the order of the append calls
nn_ops ==
    << OpInfo(Op("softmax"), None, None, Tuple(<<Category(floating)>>),
              Function("softmax_sample_generator"), None, None,
              <<None, None>>),
       OpInfo(Op("embedding"), None, None, Tuple(<<Category(floating), Category(complexfloating)>>),
              Function("embedding_sample_generator"), None, None,
              <<None, None>>) >>

\* opinfos after the opinfos.extend calls of module load
LoadedOpinfos ==
    elementwise_unary_ops
        \o elementwise_binary_ops
        \o elementwise_ternary_ops
        \o shape_ops
        \o reduction_ops
        \o tensor_creation_ops
        \o matmul_ops
        \o nn_ops

----------------------------------------------------------------------------
(* The process besides the matchers: the registry, torch's default random  *)
(* generator, the room of the devices, and the consumers of the sample     *)
(* sequences                                                                *)

\* the consumers (test workers) that request and pull sample sequences
Consumers == {"w1", "w2"}

\* a consumer that holds no sequence
IdleConsumer ==
    [seq   |-> [fn |-> "none"],   \* the generator object it pulls from
     fresh |-> [fn |-> "none"],   \* that object as the query returned it
     start |-> 0,                 \* the draws gone before, when the query returned
     log   |-> <<>>,              \* what its pulls have given it, in order
     before |-> "none",           \* how the sequence it held before this one ended
     ret   |-> [kind |-> "none", value |-> None]]   \* the outcome of its last query

\* the numbers of elements a device may have room for: less than the large
\* tensors of the unary generator need, enough for those but not for their
\* interleaved storage, and enough for every sample
Capacities == {100000, 2000000, 5000000}

AmpleCapacity == 5000000

ExtInit ==
    /\ opinfos = LoadedOpinfos
    /\ rng = 0
    /\ capacity = AmpleCapacity
    /\ consumers = [c \in Consumers |-> IdleConsumer]
    /\ loading = [phase |-> "done"]
    /\ transform = [op |-> "none"]

----------------------------------------------------------------------------
(* OpInfo.test_decorators *)

\* [d.decorator for d in directives[i:] if d.is_active(...)]
RECURSIVE ActiveDecorators(_, _, _)
ActiveDecorators(directives, i, c) ==
    IF i > Len(directives) THEN <<>>
    ELSE IF is_active(directives[i], c)
         THEN <<directives[i].decorator>> \o ActiveDecorators(directives, i + 1, c)
         ELSE ActiveDecorators(directives, i + 1, c)

\* as test_decorators, but the scan stops at the first active matcher
test_decorators_first(directives, c) ==
    IF \E i \in 1..Len(directives) : is_active(directives[i], c)
    THEN LET i == CHOOSE k \in 1..Len(directives) :
                      /\ is_active(directives[k], c)
                      /\ \A j \in 1..(k - 1) : ~is_active(directives[j], c)
         IN  <<directives[i].decorator>>
    ELSE <<>>

\* OpInfo.test_decorators, for the record whose test_directives is `directives`
test_decorators(directives, c) == ActiveDecorators(directives, 1, c)

\* the comprehension ends in the first exception an is_active call raises
test_decorators_raises(directives, c) ==
    \E i \in 1..Len(directives) : is_active_raises(directives[i], c)

----------------------------------------------------------------------------
(* The queries made of the matchers *)

MinNvFuserPatch == 2

MaxNvFuserPatch == 4

MinTorchMinor == 12

MaxTorchMinor == 13

\* candidate executors: the two of the framework, a name that is a part of a
\* configured string, the configured string itself, and a foreign name
ExecutorNames ==
    << nvFuserName, TorchExName, <<"n", "v">>,
       <<"n", "v", "F", "u", "s", "e", "r", ",">>, <<"X", "L", "A">> >>

TestNames == {"test_core_vs_torch_consistency", "test_vjp_correctness"}

DeviceTypes == {"cpu", "cuda", "tpu"}

CandidateDtypes == {"bool8", "float16", "complex32", "complex64"}

AllCandidates ==
    { Candidate(t, [name |-> ExecutorNames[e]], dev, dt) :
        t \in TestNames, e \in 1..Len(ExecutorNames),
        dev \in DeviceTypes, dt \in CandidateDtypes }

\* arguments a DecorateInfo is constructed with, by position in these lists
TestNameArgs == << None, consistency >>

ExecutorsArgs ==
    << None, Tuple(<<nvFuserName>>), Tuple(<<nvFuserName, TorchExName>>), nvFuserCommaStr >>

DevicetypesArgs == << None, Tuple(<<"cpu">>) >>

DtypesArgs == << None, Tuple(<<Dtype("float16"), Category(complexfloating)>>) >>

Outcome(raises, value) ==
    IF raises THEN [kind |-> "raise", value |-> "TypeError"]
    ELSE [kind |-> "return", value |-> value]

SelInit ==
    /\ nvFuser_version \in MinNvFuserPatch..MaxNvFuserPatch
    /\ torch_version \in MinTorchMinor..MaxTorchMinor
    /\ test_directives = LoadedDirectives(nvFuser_version, torch_version)
    /\ call = [op |-> "none", name |-> "", directives |-> <<>>, c |-> None]
    /\ ret = [kind |-> "none", value |-> FALSE]
    /\ gen = [fn |-> "none"]
    /\ yielded = [kind |-> "none"]
    /\ delivered = <<>>
    /\ ExtInit

\* DecorateInfo(...).is_active(...) on a matcher constructed for the purpose
IsActiveNew ==
    /\ call.op = "none"
    /\ \E t \in 1..Len(TestNameArgs), e \in 1..Len(ExecutorsArgs),
          dev \in 1..Len(DevicetypesArgs), dt \in 1..Len(DtypesArgs),
          a \in BOOLEAN, c \in AllCandidates :
           LET self == DecorateInfo(xfail, TestNameArgs[t], ExecutorsArgs[e],
                                    DevicetypesArgs[dev], DtypesArgs[dt], a)
           IN  /\ call' = [op |-> "is_active", name |-> "", directives |-> <<self>>, c |-> c]
               /\ ret' = Outcome(is_active_raises(self, c), is_active(self, c))
    /\ UNCHANGED <<nvFuser_version, torch_version, test_directives, gen, yielded, delivered>>
    /\ UNCHANGED extvars

\* d.is_active(...) on a matcher d of a registered record
IsActiveRegistered ==
    /\ call.op = "none"
    /\ \E n \in RecordNames, c \in AllCandidates :
          \E i \in 1..Len(test_directives[n]) :
             LET self == test_directives[n][i]
             IN  /\ call' = [op |-> "is_active", name |-> n, directives |-> <<self>>, c |-> c]
                 /\ ret' = Outcome(is_active_raises(self, c), is_active(self, c))
    /\ UNCHANGED <<nvFuser_version, torch_version, test_directives, gen, yielded, delivered>>
    /\ UNCHANGED extvars

\* opinfo.test_decorators(...) on a registered record
TestDecorators ==
    /\ call.op = "none"
    /\ \E n \in RecordNames, c \in AllCandidates :
          LET ds == test_directives[n]
          IN  /\ call' = [op |-> "test_decorators", name |-> n, directives |-> ds, c |-> c]
              /\ ret' = Outcome(test_decorators_raises(ds, c), test_decorators(ds, c))
    /\ UNCHANGED <<nvFuser_version, torch_version, test_directives, gen, yielded, delivered>>
    /\ UNCHANGED extvars

\* the caller has consumed the outcome of its query; the next query may be made
SelReturn ==
    /\ call.op # "none"
    /\ call' = [op |-> "none", name |-> "", directives |-> <<>>, c |-> None]
    /\ ret' = [kind |-> "none", value |-> FALSE]
    /\ UNCHANGED <<nvFuser_version, torch_version, test_directives, gen, yielded, delivered>>
    /\ UNCHANGED extvars

SelNext == IsActiveNew \/ IsActiveRegistered \/ TestDecorators \/ SelReturn

SpecSelect == SelInit /\ [][SelNext]_vars

----------------------------------------------------------------------------
(* Properties of the selection *)

\* the k-th smallest member of a set of indices
Kth(idx, k) == CHOOSE i \in idx : Cardinality({j \in idx : j < i}) = k - 1

\* the entries an executors filter is configured with: the items of a tuple,
\* or the one string given in place of a tuple
ConfiguredEntries(f) ==
    IF f.kind = "tuple" THEN {f.val[i] : i \in 1..Len(f.val)} ELSE {f.val}

\* c1 and c2 agree on every field the matcher m filters on
SameOnFiltered(m, c1, c2) ==
    /\ (~IsNone(m.test_template_name) => c1.test_template_name = c2.test_template_name)
    /\ (~IsNone(m.executors) => c1.executor = c2.executor)
    /\ (~IsNone(m.devicetypes) => c1.devicetype = c2.devicetype)
    /\ (~IsNone(m.dtypes) => c1.dtype = c2.dtype)

\* C1: is_active returns true exactly when active_if is true and each of the
\* four filters is absent or equals/contains the candidate's value; one present
\* filter that does not admit the candidate makes the matcher inactive, and a
\* matcher with no filter and active_if true is active for every candidate.
C1_IsActiveIffFiltersAdmit ==
    call.op = "is_active" =>
        LET m == call.directives[1]
            c == call.c
            test_ok == IsNone(m.test_template_name)
                         \/ m.test_template_name.val = c.test_template_name
            exec_ok == IsNone(m.executors) \/ PyIn(c.executor.name, m.executors)
            dev_ok  == IsNone(m.devicetypes) \/ PyIn(c.devicetype, m.devicetypes)
            dt_ok   == IsNone(m.dtypes) \/ c.dtype \in m.dtypes.val
            unfiltered == /\ IsNone(m.test_template_name) /\ IsNone(m.executors)
                          /\ IsNone(m.devicetypes) /\ IsNone(m.dtypes)
        IN  /\ ret.kind = "return"
            /\ ret.value = (m.active_if /\ test_ok /\ exec_ok /\ dev_ok /\ dt_ok)
            /\ (~test_ok \/ ~exec_ok \/ ~dev_ok \/ ~dt_ok) => ~ret.value
            /\ (unfiltered /\ m.active_if) => ret.value

\* C1 witness: a matcher with all four filters present was found active
C1_Witness ==
    /\ call.op = "is_active"
    /\ ~IsNone(call.directives[1].test_template_name)
    /\ ~IsNone(call.directives[1].executors)
    /\ ~IsNone(call.directives[1].devicetypes)
    /\ ~IsNone(call.directives[1].dtypes)
    /\ ret.kind = "return"
    /\ ret.value

\* C2: test_decorators returns the decorators of all the active matchers of the
\* record, in the order of test_directives: exactly the subsequence of the
\* decorators whose matcher is active, not only the first.
C2_AllActiveInOrder ==
    call.op = "test_decorators" =>
        LET ds  == call.directives
            idx == {i \in 1..Len(ds) : is_active(ds[i], call.c)}
        IN  /\ ret.kind = "return"
            /\ Len(ret.value) = Cardinality(idx)
            /\ \A k \in 1..Cardinality(idx) : ret.value[k] = ds[Kth(idx, k)].decorator

\* C2 witness: two matchers were active and gave two different effects, in order
C2_Witness ==
    /\ call.op = "test_decorators"
    /\ ret.kind = "return"
    /\ Len(ret.value) >= 2
    /\ ret.value[1] = skip
    /\ ret.value[2] = xfail

\* C3: a matcher with an executors filter is active only for a candidate whose
\* executor name is equal to one of the configured entries; a name that is only
\* a part of an entry, or of which an entry is only a part, is not admitted.
C3_ExecutorsFilterIsMembership ==
    (/\ call.op = "is_active"
     /\ call.name # ""
     /\ ~IsNone(call.directives[1].executors)
     /\ ret.kind = "return"
     /\ ret.value)
        => call.c.executor.name \in ConfiguredEntries(call.directives[1].executors)

\* C4: is_active gives the same answer for two candidates that differ only in
\* fields the matcher does not filter on, and test_decorators the same list for
\* two candidates that differ only in fields no matcher of the record filters on.
C4_UnfilteredFieldsDoNotMatter ==
    /\ call.op = "is_active" =>
          \A c2 \in AllCandidates :
             SameOnFiltered(call.directives[1], call.c, c2)
                => is_active(call.directives[1], c2) = ret.value
    /\ call.op = "test_decorators" =>
          \A c2 \in AllCandidates :
             (\A i \in 1..Len(call.directives) :
                 SameOnFiltered(call.directives[i], call.c, c2))
                => test_decorators(call.directives, c2) = ret.value

\* C4 witness: an active matcher that filters on the dtype and on nothing else,
\* so that candidates differing in test, executor and device type are compared
C4_Witness ==
    /\ call.op = "is_active"
    /\ IsNone(call.directives[1].test_template_name)
    /\ IsNone(call.directives[1].executors)
    /\ IsNone(call.directives[1].devicetypes)
    /\ ~IsNone(call.directives[1].dtypes)
    /\ ret.kind = "return"
    /\ ret.value

\* the executor name, device type, dtype is named by some matcher of the list
ExecutorMentioned(ds, c) ==
    \E i \in 1..Len(ds) :
        ~IsNone(ds[i].executors) /\ c.executor.name \in ConfiguredEntries(ds[i].executors)

DevicetypeMentioned(ds, c) ==
    \E i \in 1..Len(ds) :
        ~IsNone(ds[i].devicetypes) /\ PyIn(c.devicetype, ds[i].devicetypes)

DtypeMentioned(ds, c) ==
    \E i \in 1..Len(ds) : ~IsNone(ds[i].dtypes) /\ c.dtype \in ds[i].dtypes.val

\* the matcher m filters on a field in which the candidate is unknown to the list
FiltersOnUnknown(ds, m, c) ==
    \/ (~IsNone(m.executors) /\ ~ExecutorMentioned(ds, c))
    \/ (~IsNone(m.devicetypes) /\ ~DevicetypeMentioned(ds, c))
    \/ (~IsNone(m.dtypes) /\ ~DtypeMentioned(ds, c))

\* C5: a query with an executor name, device type or dtype that no matcher of
\* the record mentions returns normally; the matchers that filter on that field
\* contribute nothing and the others are unaffected.
C5_UnknownIdentityIsSilentNoMatch ==
    call.op = "test_decorators" =>
        LET ds  == call.directives
            idx == {i \in 1..Len(ds) :
                      /\ ~FiltersOnUnknown(ds, ds[i], call.c)
                      /\ is_active(ds[i], call.c)}
        IN  /\ ret.kind = "return"
            /\ Len(ret.value) = Cardinality(idx)
            /\ \A k \in 1..Cardinality(idx) : ret.value[k] = ds[Kth(idx, k)].decorator

----------------------------------------------------------------------------
(* Dtypes of the sample generators *)

GenDtypes == {"float32", "int64", "complex64"}

\* thunder.langs.torch.torch_dtype: the torch dtype of a thunder dtype
torch_dtype(d) ==
    CASE d = "float32"   -> "torch.float32"
      [] d = "int64"     -> "torch.int64"
      [] d = "complex64" -> "torch.complex64"

\* thunder.langs.torch.thunder_dtype: the thunder dtype of a torch dtype
thunder_dtype(d) ==
    CASE d = "torch.float32"   -> "float32"
      [] d = "torch.int64"     -> "int64"
      [] d = "torch.complex64" -> "complex64"

is_complex_dtype(d) == d \in complexfloating

IsIntegerTorchDtype(d) == d = "torch.int64"

----------------------------------------------------------------------------
(* thunder.tests.make_tensor and the tensors it returns.  A tensor is held  *)
(* with the interval [low, high) its elements were drawn from; for a        *)
(* complex dtype the interval is that of the real parts.                    *)

RECURSIVE Numel(_)
\* the number of elements of a tensor of the shape
Numel(shape) == IF shape = <<>> THEN 1 ELSE Head(shape) * Numel(Tail(shape))

\* make_tensor: an absent low or high stands for the bound of the window -9, 9
make_tensor(shape, device, dtype, requires_grad, low, high, noncontiguous, exclude_zero) ==
    [kind          |-> "tensor",
     id            |-> 0,
     shape         |-> shape,
     device        |-> device,
     dtype         |-> dtype,
     requires_grad |-> requires_grad,
     noncontiguous |-> noncontiguous,
     exclude_zero  |-> exclude_zero,
     low           |-> IF IsNone(low) THEN Num(-9 * UnitsPerOne) ELSE low,
     high          |-> IF IsNone(high) THEN Num(9 * UnitsPerOne) ELSE high,
     strides       |-> None,
     offset        |-> 0,
     storage       |-> Numel(shape)]

\* the values an element of the tensor may have: those of [low, high) that the
\* dtype can hold, zero left out on request
TensorValues(t) ==
    { v \in (t.low.val)..(t.high.val - 1) :
        /\ (IsIntegerTorchDtype(t.dtype) => v % UnitsPerOne = 0)
        /\ (t.exclude_zero => v # 0) }

\* the tensor as the n-th tensor object its generator has made: two tensors of
\* one generator are the same object exactly when they have the same id
Object(t, n) == [t EXCEPT !.id = n]

\* Tensor.as_strided: a view of the same elements (storage: the number of elements
\* of the buffer the tensor was made with, which a view keeps)
as_strided(t, shape, strides, offset) ==
    [t EXCEPT !.shape = shape, !.strides = Tuple(strides), !.offset = offset]

SampleInput(args, kwargs) == [args |-> args, kwargs |-> kwargs]

\* keyword arguments: the <<key, value>> pairs in the order given
NoKwargs == <<>>

HasKey(kwargs, key) == \E i \in 1..Len(kwargs) : kwargs[i][1] = key

----------------------------------------------------------------------------
(* OpInfo records of the elementwise unary operators *)

\* an OpInfo as the unary generator reads it: its domain, and the keywords its
\* sample_input_generator is a partial of
UnaryOp(name, domain, supports_numbers, exclude_zero) ==
    [name |-> name, domain |-> domain,
     supports_numbers |-> supports_numbers, exclude_zero |-> exclude_zero]

UnaryOpinfos ==
    << UnaryOp("abs", Domain(None, None), TRUE, FALSE),
       UnaryOp("acos", Domain(Num(-1 * UnitsPerOne), Num(1 * UnitsPerOne)), TRUE, FALSE),
       UnaryOp("acosh", Domain(Num(1 * UnitsPerOne), PosInf), TRUE, FALSE),
       UnaryOp("atanh", Domain(Num(-1 * UnitsPerOne + eps), Num(1 * UnitsPerOne - eps)),
               TRUE, FALSE),
       UnaryOp("erfinv", Domain(Num(-1 * UnitsPerOne), Num(1 * UnitsPerOne)), FALSE, FALSE),
       UnaryOp("rsqrt", Domain(Num(0), PosInf), TRUE, TRUE),
       UnaryOp("sqrt", Domain(Num(0), PosInf), TRUE, FALSE),
       UnaryOp("reciprocal", Domain(Num(0 + eps), PosInf), TRUE, FALSE),
       UnaryOp("tan", Domain(None, None), TRUE, FALSE) >>

\* bounds an OpInfo may be constructed with besides those of the registry
MaxDomainBound == 20

DomainLows == << None, NegInf, Num(-MaxDomainBound * UnitsPerOne), Num(0) >>

DomainHighs == << None, PosInf, Num(MaxDomainBound * UnitsPerOne), Num(1 * UnitsPerOne) >>

----------------------------------------------------------------------------
(* elementwise_unary_generator *)

\* as unary_low, with min for max
unary_low_min(op) ==
    IF IsNone(op.domain.low) THEN None ELSE PyMin(Num(-9 * UnitsPerOne), op.domain.low)

\* as unary_low, an absent bound read as 0
unary_low_none_zero(op) ==
    IF IsNone(op.domain.low) THEN PyMax(Num(-9 * UnitsPerOne), Num(0))
    ELSE PyMax(Num(-9 * UnitsPerOne), op.domain.low)

\* low = None if op.domain.low is None else max(-9, op.domain.low)
unary_low(op) ==
    IF IsNone(op.domain.low) THEN None ELSE PyMax(Num(-9 * UnitsPerOne), op.domain.low)

\* as unary_high, the domain left out
unary_high_window(op) ==
    IF IsNone(op.domain.high) THEN None ELSE Num(9 * UnitsPerOne)

\* high = None if op.domain.high is None else min(9, op.domain.high)
unary_high(op) ==
    IF IsNone(op.domain.high) THEN None ELSE PyMin(Num(9 * UnitsPerOne), op.domain.high)

shapes == << <<>>, <<11>>, <<4, 4>>, <<1024, 1024>>, <<64, 64, 64>> >>

\* shape, strides, offset
strided_cases ==
    << << <<5, 6, 2>>, <<1, 1, 7>>, 2 >>,
       << <<5, 5, 4>>, <<1, 1, 7>>, 2 >>,
       << <<5, 5, 2>>, <<4, 5, 7>>, 3 >>,
       << <<5, 5, 2>>, <<5, 5, 7>>, 3 >>,
       << <<5, 5, 2>>, <<5, 5, 5>>, 3 >>,
       << <<9, 5, 2>>, <<0, 1, 7>>, 3 >> >>

\* make_arg = partial(make_tensor, device=, dtype=, low=, high=, requires_grad=, **kwargs)
unary_make_arg(g, n, shape, noncontiguous) ==
    Object(make_tensor(shape, g.device, g.dtype, g.requires_grad, g.low, g.high,
                       noncontiguous, g.exclude_zero), n)

\* as unary_scalar_case, complex dtypes let through
unary_scalar_case_complex(g) ==
    g.supports_numbers

\* the scalar case is reached: supports_numbers and the dtype is not complex
unary_scalar_case(g) ==
    g.supports_numbers /\ ~is_complex_dtype(thunder_dtype(g.dtype))

\* the k-th tensor sample of the generator, k in 1..16
unary_tensor_sample(g, k) ==
    IF k <= Len(shapes)
    THEN SampleInput(<<unary_make_arg(g, k, shapes[k], FALSE)>>, NoKwargs)
    ELSE IF k <= 2 * Len(shapes)
    THEN SampleInput(<<unary_make_arg(g, k, shapes[k - Len(shapes)], TRUE)>>, NoKwargs)
    ELSE LET case == strided_cases[k - 2 * Len(shapes)]
         IN  SampleInput(<<as_strided(unary_make_arg(g, k, <<500>>, FALSE),
                                      case[1], case[2], case[3])>>, NoKwargs)

UnaryTensorSamples == 2 * Len(shapes) + Len(strided_cases)

\* make_number: the values make_tensor((), device="cpu", **kwargs).item() may give
make_number(dtype, low, high, exclude_zero) ==
    TensorValues(make_tensor(<<>>, "cpu", dtype, FALSE, low, high, FALSE, exclude_zero))

----------------------------------------------------------------------------
(* Requesting and pulling sample sequences *)

GenDevices == {"cpu", "cuda"}

\* the selection state is not touched by the generators
SelUnchanged ==
    /\ UNCHANGED <<nvFuser_version, torch_version, test_directives, call, ret>>
    /\ UNCHANGED extvars

GenInit ==
    /\ nvFuser_version = MinNvFuserPatch
    /\ torch_version = MinTorchMinor
    /\ test_directives = LoadedDirectives(nvFuser_version, torch_version)
    /\ call = [op |-> "none", name |-> "", directives |-> <<>>, c |-> None]
    /\ ret = [kind |-> "none", value |-> FALSE]
    /\ gen = [fn |-> "none"]
    /\ yielded = [kind |-> "none"]
    /\ delivered = <<>>
    /\ ExtInit

\* the generator object elementwise_unary_generator(op, device, dtype, requires_grad,
\* supports_numbers=, **kwargs) returns: no statement of its body has run
UnaryFrame(op, device, dtype, requires_grad) ==
    [fn               |-> "elementwise_unary_generator",
     op               |-> op,
     device           |-> device,
     dtype            |-> dtype,
     requires_grad    |-> requires_grad,
     supports_numbers |-> op.supports_numbers,
     exclude_zero     |-> op.exclude_zero,
     state            |-> "created",
     k                |-> 0,
     low              |-> None,
     high             |-> None]

\* opinfo.sample_inputs(device, dtype, requires_grad=) on a registered unary record
UnarySampleInputs ==
    /\ gen.fn = "none"
    /\ \E i \in 1..Len(UnaryOpinfos), device \in GenDevices, dtype \in GenDtypes,
          requires_grad \in BOOLEAN :
           gen' = UnaryFrame(UnaryOpinfos[i], device, torch_dtype(dtype), requires_grad)
    /\ yielded' = [kind |-> "none"]
    /\ delivered' = <<>>
    /\ SelUnchanged

\* OpInfo(op, domain=, sample_input_generator=partial(elementwise_unary_generator,
\* supports_numbers=)).sample_inputs(...) on a record constructed for the purpose
UnarySampleInputsNew ==
    /\ gen.fn = "none"
    /\ \E l \in 1..Len(DomainLows), h \in 1..Len(DomainHighs), sn \in BOOLEAN,
          dtype \in GenDtypes :
           gen' = UnaryFrame(UnaryOp("new", Domain(DomainLows[l], DomainHighs[h]), sn, FALSE),
                             "cpu", torch_dtype(dtype), FALSE)
    /\ yielded' = [kind |-> "none"]
    /\ delivered' = <<>>
    /\ SelUnchanged

\* next() on the unary generator: the body runs to its next yield, or to its end
UnaryNext ==
    /\ gen.fn = "elementwise_unary_generator"
    /\ gen.state # "exhausted"
    /\ LET g == IF gen.state = "created"
                THEN [gen EXCEPT !.low = unary_low(gen.op), !.high = unary_high(gen.op),
                                 !.state = "suspended"]
                ELSE gen
           k == gen.k + 1
       IN  \/ /\ k <= UnaryTensorSamples
              /\ gen' = [g EXCEPT !.k = k]
              /\ yielded' = [kind |-> "sample", value |-> unary_tensor_sample(g, k)]
              /\ delivered' = Append(delivered, unary_tensor_sample(g, k))
           \/ /\ k = UnaryTensorSamples + 1
              /\ unary_scalar_case(g)
              /\ \E v \in make_number(g.dtype, g.low, g.high, g.exclude_zero) :
                    /\ yielded' = [kind |-> "sample",
                                   value |-> SampleInput(<<Num(v)>>, NoKwargs)]
                    /\ delivered' = Append(delivered, SampleInput(<<Num(v)>>, NoKwargs))
              /\ gen' = [g EXCEPT !.k = k]
           \/ /\ \/ k = UnaryTensorSamples + 1 /\ ~unary_scalar_case(g)
                 \/ k > UnaryTensorSamples + 1
              /\ gen' = [g EXCEPT !.state = "exhausted"]
              /\ yielded' = [kind |-> "StopIteration"]
              /\ UNCHANGED delivered
    /\ SelUnchanged

----------------------------------------------------------------------------
(* elementwise_binary_generator *)

\* an OpInfo as the binary generator reads it: the keywords its
\* sample_input_generator is a partial of
BinaryOpinfos ==
    << [name |-> "add", exclude_zero |-> FALSE],
       [name |-> "remainder", exclude_zero |-> TRUE] >>

\* make_tensor(shape, device=, dtype=, requires_grad=, **kwargs): the n-th of the call
binary_make(g, n, shape) ==
    Object(make_tensor(shape, g.device, g.dtype, g.requires_grad, None, None,
                       FALSE, g.exclude_zero), n)

\* as binary_broadcast_sample, the second operand of the first sample kept first
binary_broadcast_sample_b(a, b, c) == SampleInput(<<b, c>>, NoKwargs)

\* yield SampleInput(a, c)
binary_broadcast_sample(a, b, c) == SampleInput(<<a, c>>, NoKwargs)

BinaryFrame(op, device, dtype, requires_grad) ==
    [fn            |-> "elementwise_binary_generator",
     op            |-> op,
     device        |-> device,
     dtype         |-> dtype,
     requires_grad |-> requires_grad,
     exclude_zero  |-> op.exclude_zero,
     state         |-> "created",
     k             |-> 0,
     a             |-> None,
     b             |-> None,
     c             |-> None]

\* opinfo.sample_inputs(device, dtype, requires_grad=) on a binary record
BinarySampleInputs ==
    /\ gen.fn = "none"
    /\ \E i \in 1..Len(BinaryOpinfos), device \in GenDevices, dtype \in GenDtypes,
          requires_grad \in BOOLEAN :
           gen' = BinaryFrame(BinaryOpinfos[i], device, torch_dtype(dtype), requires_grad)
    /\ yielded' = [kind |-> "none"]
    /\ delivered' = <<>>
    /\ SelUnchanged

\* next() on the binary generator
BinaryNext ==
    /\ gen.fn = "elementwise_binary_generator"
    /\ gen.state # "exhausted"
    /\ \/ /\ gen.state = "created"
          /\ LET a == binary_make(gen, 1, <<4, 4>>)
                 b == binary_make(gen, 2, <<4, 4>>)
             IN  /\ gen' = [gen EXCEPT !.a = a, !.b = b, !.k = 1, !.state = "suspended"]
                 /\ yielded' = [kind |-> "sample", value |-> SampleInput(<<a, b>>, NoKwargs)]
                 /\ delivered' = Append(delivered, SampleInput(<<a, b>>, NoKwargs))
       \/ /\ gen.state = "suspended"
          /\ gen.k = 1
          /\ LET c == binary_make(gen, 3, <<4, 1>>)
                 sample == binary_broadcast_sample(gen.a, gen.b, c)
             IN  /\ gen' = [gen EXCEPT !.c = c, !.k = 2]
                 /\ yielded' = [kind |-> "sample", value |-> sample]
                 /\ delivered' = Append(delivered, sample)
       \/ /\ gen.state = "suspended"
          /\ gen.k = 2
          /\ gen' = [gen EXCEPT !.state = "exhausted"]
          /\ yielded' = [kind |-> "StopIteration"]
          /\ UNCHANGED delivered
    /\ SelUnchanged

----------------------------------------------------------------------------
(* reduction_sample_generator and var_sample_generator *)

PyBool(b) == [kind |-> "bool", val |-> b]

PyInt(n) == [kind |-> "int", val |-> n]

\* shape, dim, keepdim, dtype
reduction_cases ==
    << << <<4, 4>>, None, PyBool(FALSE), None >>,
       << <<5>>, None, PyBool(TRUE), None >>,
       << <<5>>, PyInt(0), PyBool(FALSE), None >>,
       << <<8, 1, 6>>, PyInt(1), PyBool(TRUE), None >>,
       << <<8, 7, 5, 1>>, Tuple(<<0, 1>>), PyBool(TRUE), None >>,
       << <<8, 7, 5, 1>>, Tuple(<<1, 3>>), PyBool(FALSE), None >>,
       << <<4, 4>>, None >> >>

\* make = partial(make_tensor, device=, dtype=, requires_grad=, low=-2, high=3)
reduction_make(device, dtype, requires_grad, n, shape) ==
    Object(make_tensor(shape, device, dtype, requires_grad,
                       Num(-2 * UnitsPerOne), Num(3 * UnitsPerOne), FALSE, FALSE), n)

\* as reduction_sample, the local dtype not rebound by the cases before
reduction_sample_not_rebound(device, dtype, requires_grad, n) ==
    LET c == reduction_cases[n]
        t == reduction_make(device, dtype, requires_grad, n, c[1])
    IN  IF Len(c) = 2
        THEN SampleInput(<<t>>, << <<"dtype", Str(dtype)>> >>)
        ELSE SampleInput(<<t, c[2], c[3]>>, << <<"dtype", c[4]>> >>)

\* the n-th sample of reduction_sample_generator.  The local dtype is rebound by
\* `shape, dim, keepdim, dtype = c`, so the keyword dtype= of a two-item case is
\* the dtype item of the case before it
reduction_sample(device, dtype, requires_grad, n) ==
    LET c == reduction_cases[n]
        t == reduction_make(device, dtype, requires_grad, n, c[1])
    IN  IF Len(c) = 2
        THEN SampleInput(<<t>>,
                 << <<"dtype", IF n = 1 THEN Str(dtype) ELSE reduction_cases[n - 1][4]>> >>)
        ELSE SampleInput(<<t, c[2], c[3]>>, << <<"dtype", c[4]>> >>)

\* tuple(reduction_sample_generator(op, device, dtype, requires_grad))
reduction_samples(device, dtype, requires_grad) ==
    [n \in 1..Len(reduction_cases) |-> reduction_sample(device, dtype, requires_grad, n)]

unbiased == << None, PyBool(TRUE), PyBool(FALSE) >>

correction == << None, PyInt(0), PyInt(1) >>

\* the n-th item of itertools.product(unbiased, correction, samples), n from 1:
\* the last iterable runs fastest
product_item(samples, n) ==
    LET m == n - 1
    IN  [u      |-> unbiased[(m \div (Len(correction) * Len(samples))) + 1],
         c      |-> correction[((m \div Len(samples)) % Len(correction)) + 1],
         sample |-> samples[(m % Len(samples)) + 1]]

ProductLen(samples) == Len(unbiased) * Len(correction) * Len(samples)

\* as var_skip, nothing skipped
var_skip_never(u, c) == FALSE

\* if u is not None and c is not None: continue
var_skip(u, c) == ~IsNone(u) /\ ~IsNone(c)

\* the sample yielded for an item that is not skipped
var_sample(u, c, sample) ==
    LET a == sample.args[1]
        dim == IF Len(sample.args) > 1 THEN sample.args[2] ELSE None
        keepdim == IF Len(sample.args) > 2 THEN sample.args[3] ELSE PyBool(FALSE)
    IN  IF ~IsNone(u)
        THEN SampleInput(<<a, dim, u, keepdim>>, NoKwargs)
        ELSE IF ~IsNone(c)
        THEN SampleInput(<<a, dim>>, << <<"keepdim", keepdim>>, <<"correction", c>> >>)
        ELSE SampleInput(<<a, dim, keepdim>>, NoKwargs)

VarFrame(device, dtype, requires_grad) ==
    [fn            |-> "var_sample_generator",
     device        |-> device,
     dtype         |-> dtype,
     requires_grad |-> requires_grad,
     state         |-> "created",
     n             |-> 0,
     samples       |-> <<>>]

\* var_mean_opinfo.sample_inputs(device, dtype, requires_grad=)
VarSampleInputs ==
    /\ gen.fn = "none"
    /\ \E device \in GenDevices, dtype \in GenDtypes, requires_grad \in BOOLEAN :
           gen' = VarFrame(device, torch_dtype(dtype), requires_grad)
    /\ yielded' = [kind |-> "none"]
    /\ delivered' = <<>>
    /\ SelUnchanged

\* next() on the var generator: the loop over the product runs on, past the
\* items it skips, to its next yield or to its end
VarNext ==
    /\ gen.fn = "var_sample_generator"
    /\ gen.state # "exhausted"
    /\ LET samples == IF gen.state = "created"
                      THEN reduction_samples(gen.device, gen.dtype, gen.requires_grad)
                      ELSE gen.samples
           rest == { n \in (gen.n + 1)..ProductLen(samples) :
                       ~var_skip(product_item(samples, n).u, product_item(samples, n).c) }
       IN  IF rest = {}
           THEN /\ gen' = [gen EXCEPT !.samples = samples, !.state = "exhausted",
                                      !.n = ProductLen(samples)]
                /\ yielded' = [kind |-> "StopIteration"]
                /\ UNCHANGED delivered
           ELSE LET n == CHOOSE m \in rest : \A o \in rest : m <= o
                    item == product_item(samples, n)
                    sample == var_sample(item.u, item.c, item.sample)
                IN  /\ gen' = [gen EXCEPT !.samples = samples, !.state = "suspended", !.n = n]
                    /\ yielded' = [kind |-> "sample", value |-> sample]
                    /\ delivered' = Append(delivered, sample)
    /\ SelUnchanged

\* the caller lets go of the generator, exhausted or not
GenClose ==
    /\ gen.fn # "none"
    /\ gen' = [fn |-> "none"]
    /\ yielded' = [kind |-> "none"]
    /\ delivered' = <<>>
    /\ SelUnchanged

GenNext ==
    \/ UnarySampleInputs
    \/ UnarySampleInputsNew
    \/ UnaryNext
    \/ BinarySampleInputs
    \/ BinaryNext
    \/ VarSampleInputs
    \/ VarNext
    \/ GenClose

SpecGen == GenInit /\ [][GenNext]_vars

----------------------------------------------------------------------------
(* Properties of the elementwise unary generator *)

\* a sample of the unary generator has just been delivered
UnaryYielded ==
    /\ gen.fn = "elementwise_unary_generator"
    /\ yielded.kind = "sample"

\* every value the one argument of the sample may hold satisfies P: each possible
\* element of a tensor, or the number itself
YieldedValues ==
    LET a == yielded.value.args[1]
    IN  IF a.kind = "tensor" THEN TensorValues(a) ELSE {a.val}

\* C6: for acos, whose domain is (-1, 1), no generated value of any sample, tensor
\* element or scalar, of any dtype, is exactly -1 or exactly 1.
C6_AcosNeverAtBoundary ==
    (UnaryYielded /\ gen.op.name = "acos") =>
        \A v \in YieldedValues : v # -1 * UnitsPerOne /\ v # 1 * UnitsPerOne

\* C6 as amended: for acos every generated value lies in [-1, 1): it is never 1
\* or more and never below -1, and -1 itself, the closed end, may be generated.
C6_AcosWithinClosedOpen ==
    (UnaryYielded /\ gen.op.name = "acos") =>
        \A v \in YieldedValues : -1 * UnitsPerOne <= v /\ v < 1 * UnitsPerOne

\* C6 witness: the (4, 4) sample of acos, which may hold -1
C6_Witness ==
    /\ UnaryYielded
    /\ gen.op.name = "acos"
    /\ yielded.value.args[1].kind = "tensor"
    /\ yielded.value.args[1].shape = <<4, 4>>
    /\ -1 * UnitsPerOne \in YieldedValues

\* max(-9, b) and min(9, b) on a bound that is present, in hundredths
ClampedLow(b) ==
    IF b.kind = "inf" THEN (IF b.val < 0 THEN -9 * UnitsPerOne ELSE b.val)
    ELSE IF b.val > -9 * UnitsPerOne THEN b.val ELSE -9 * UnitsPerOne

ClampedHigh(b) ==
    IF b.kind = "inf" THEN (IF b.val > 0 THEN 9 * UnitsPerOne ELSE b.val)
    ELSE IF b.val < 9 * UnitsPerOne THEN b.val ELSE 9 * UnitsPerOne

\* C7: for a domain with both bounds present, the bounds the generator uses are
\* low = max(-9, low) and high = min(9, high), never wider than that window; an
\* infinite bound is cut to -9 or 9.
C7_BoundsClampedToWindow ==
    (/\ gen.fn = "elementwise_unary_generator"
     /\ gen.state # "created"
     /\ ~IsNone(gen.op.domain.low)
     /\ ~IsNone(gen.op.domain.high))
        => /\ gen.low.kind = "num"
           /\ gen.low.val = ClampedLow(gen.op.domain.low)
           /\ gen.high.kind = "num"
           /\ gen.high.val = ClampedHigh(gen.op.domain.high)
           /\ gen.low.val >= -9 * UnitsPerOne
           /\ gen.high.val <= 9 * UnitsPerOne
           /\ (yielded.kind = "sample" /\ yielded.value.args[1].kind = "tensor")
                 => /\ yielded.value.args[1].low = gen.low
                    /\ yielded.value.args[1].high = gen.high

\* C7 witness: a sample for a finite domain wider than the window on both sides
C7_Witness ==
    /\ UnaryYielded
    /\ gen.op.domain.low.kind = "num"
    /\ gen.op.domain.high.kind = "num"
    /\ gen.op.domain.low.val < -9 * UnitsPerOne
    /\ gen.op.domain.high.val > 9 * UnitsPerOne

----------------------------------------------------------------------------
(* Properties of var_sample_generator and elementwise_binary_generator *)

\* the sample has a third positional argument, the place of unbiased
HasThirdPositional(sample) == Len(sample.args) >= 3

\* the items of the product that do not name both unbiased and correction
NotBothItems(samples) ==
    { n \in 1..ProductLen(samples) :
        IsNone(product_item(samples, n).u) \/ IsNone(product_item(samples, n).c) }

\* C9: var_sample_generator never yields a sample with both an explicit unbiased
\* and an explicit correction: every item of the product with both non-None is
\* skipped, every other item is yielded, and a yielded sample carries at most one
\* of the two, unbiased as third positional argument or correction as keyword.
C9_VarNeverBothUnbiasedAndCorrection ==
    gen.fn = "var_sample_generator" =>
        /\ \A i \in 1..Len(delivered) :
              ~(HasThirdPositional(delivered[i]) /\ HasKey(delivered[i].kwargs, "correction"))
        /\ yielded.kind = "sample" =>
              LET item == product_item(gen.samples, gen.n)
              IN  /\ IsNone(item.u) \/ IsNone(item.c)
                  /\ ~IsNone(item.u) =>
                        /\ Len(yielded.value.args) = 4
                        /\ yielded.value.args[3] = item.u
                  /\ ~IsNone(item.c) =>
                        /\ Len(yielded.value.args) = 2
                        /\ yielded.value.kwargs[2] = <<"correction", item.c>>
                  /\ Len(delivered) = Cardinality({n \in NotBothItems(gen.samples) : n <= gen.n})
        /\ gen.state = "exhausted" =>
              Len(delivered) = Cardinality(NotBothItems(gen.samples))

\* C9 witness: the sequence has ended after samples with an explicit unbiased and
\* samples with an explicit correction
C9_Witness ==
    /\ gen.fn = "var_sample_generator"
    /\ gen.state = "exhausted"
    /\ \E i \in 1..Len(delivered) : HasKey(delivered[i].kwargs, "correction")
    /\ \E i \in 1..Len(delivered) : Len(delivered[i].args) = 4

\* C10: elementwise_binary_generator yields exactly two samples, for any device,
\* dtype and requires_grad: first (a, b), both of shape (4, 4), then (a, c) with
\* the same a and c of shape (4, 1); after the second the sequence is exhausted.
C10_BinaryYieldsTwoSamples ==
    gen.fn = "elementwise_binary_generator" =>
        /\ Len(delivered) <= 2
        /\ gen.state = "created" => Len(delivered) = 0
        /\ gen.state = "suspended" => Len(delivered) = gen.k /\ gen.k >= 1
        /\ gen.state = "exhausted" => Len(delivered) = 2 /\ yielded.kind = "StopIteration"
        /\ Len(delivered) >= 1 =>
              /\ Len(delivered[1].args) = 2
              /\ delivered[1].args[1].shape = <<4, 4>>
              /\ delivered[1].args[2].shape = <<4, 4>>
              /\ delivered[1].args[1].id # delivered[1].args[2].id
        /\ Len(delivered) = 2 =>
              /\ Len(delivered[2].args) = 2
              /\ delivered[2].args[1] = delivered[1].args[1]
              /\ delivered[2].args[2].shape = <<4, 1>>
              /\ delivered[2].args[2].id # delivered[1].args[1].id
              /\ delivered[2].args[2].id # delivered[1].args[2].id

\* C10 witness: the binary sequence has ended after its two samples
C10_Witness ==
    /\ gen.fn = "elementwise_binary_generator"
    /\ gen.state = "exhausted"
    /\ Len(delivered) = 2

----------------------------------------------------------------------------
(* Drawing tensors and numbers.  make_tensor fills a tensor from torch's    *)
(* default random generator, which is one object of the process: a call    *)
(* made when r draws have gone before gives the values that belong to r,   *)
(* and leaves the generator one draw further.  No generator of the file    *)
(* seeds it or passes a generator of its own.                              *)

\* make_tensor raises (RuntimeError) when the device has no room for the tensor;
\* noncontiguous=True takes storage for twice the elements
make_tensor_raises(shape, noncontiguous, cap) ==
    Numel(shape) * (IF noncontiguous THEN 2 ELSE 1) > cap

\* the tensor t as drawn when r draws have gone before
Drawn(t, r) ==
    [kind          |-> t.kind,
     id            |-> t.id,
     shape         |-> t.shape,
     device        |-> t.device,
     dtype         |-> t.dtype,
     requires_grad |-> t.requires_grad,
     noncontiguous |-> t.noncontiguous,
     exclude_zero  |-> t.exclude_zero,
     low           |-> t.low,
     high          |-> t.high,
     strides       |-> t.strides,
     offset        |-> t.offset,
     storage       |-> t.storage,
     values        |-> r]

\* Tensor.item() of the 0-dim tensor t drawn when r draws have gone before:
\* one of TensorValues(t), by r
item(t, r) ==
    LET step  == IF IsIntegerTorchDtype(t.dtype) THEN UnitsPerOne ELSE 1
        first == ((t.low.val + step - 1) \div step) * step
        count == ((t.high.val - 1 - first) \div step) + 1
        v     == first + step * (r % count)
    IN  IF t.exclude_zero /\ v = 0 THEN step ELSE v

\* make_number(dtype=dtype) when r draws have gone before
make_number_at(dtype, r) ==
    Num(item(make_tensor(<<>>, "cpu", dtype, FALSE, None, None, FALSE, FALSE), r))

\* what one pull gives its caller
Sample(value) == [kind |-> "sample", value |-> value]

Raise(exception) == [kind |-> "raise", value |-> exception]

StopIteration == [kind |-> "StopIteration", value |-> None]

\* the result of running a generator body from where it stands to its next
\* yield, its end or an exception: the frame after, what the caller gets, and
\* the number of draws made
Ran(seq, out, draws) == [seq |-> seq, out |-> out, draws |-> draws]

\* a generator whose body has ended, by return or by an exception
Finished(g) == [g EXCEPT !.state = "exhausted"]

----------------------------------------------------------------------------
(* The bodies of the generators, one pull at a time: g is the frame, r the  *)
(* draws gone before, cap the room of the device                            *)

\* the generator object a generator function returns: no statement of its body
\* has run.  numbers holds the locals drawn before the first yield
Frame(fn, device, dtype, requires_grad) ==
    [fn            |-> fn,
     device        |-> device,
     dtype         |-> dtype,
     requires_grad |-> requires_grad,
     state         |-> "created",
     k             |-> 0,
     numbers       |-> <<>>]

\* make = partial(make_tensor, device=, dtype=, requires_grad=): the n-th tensor
\* of the generator, drawn when r draws have gone before
make_at(g, n, shape, dtype, requires_grad, r) ==
    Drawn(Object(make_tensor(shape, g.device, dtype, requires_grad, None, None,
                             FALSE, FALSE), n), r)

\* shape, padding_config
pad_cases ==
    << << <<1, 3>>, << <<0, 0, 0>>, <<0, 0, 0>> >> >>,
       << <<3, 7, 5>>, << <<-2, 1, 0>>, <<1, 3, 0>>, <<-1, 2, 0>> >> >>,
       << <<2, 2>>, << <<1, 1, 0>>, <<-1, 2, 0>> >> >>,
       << <<2, 0, 3>>, << <<1, 0, 0>>, <<1, 1, 0>>, <<0, 0, 0>> >> >>,
       << <<5, 7>>, << <<0, 0, 0>>, <<-6, 2, 0>> >> >>,
       << <<3, 2, 5>>, << <<-2, 1, 0>>, <<1, -1, 0>>, <<-1, 3, 0>> >> >> >>

\* pad_sample_generator: for each case, SampleInput(make(shape),
\* make_number(dtype=dtype), padding_config)
pad_step(g, r, cap) ==
    LET k == g.k + 1
    IN  IF k > Len(pad_cases) THEN Ran(Finished(g), StopIteration, 0)
        ELSE IF make_tensor_raises(pad_cases[k][1], FALSE, cap)
        THEN Ran(Finished(g), Raise("RuntimeError"), 0)
        ELSE Ran([g EXCEPT !.k = k, !.state = "suspended"],
                 Sample(SampleInput(
                     << make_at(g, k, pad_cases[k][1], g.dtype, g.requires_grad, r),
                        make_number_at(g.dtype, r + 1),
                        Tuple(pad_cases[k][2]) >>, NoKwargs)),
                 2)

\* pred_shape, a_shape of the cases of masked_fill_sample_generator; the third
\* item of a case, number(), is drawn when the tuple is built
masked_fill_cases ==
    << << <<2, 1, 2>>, <<1, 2, 2>> >>,
       << <<4, 6>>, <<6, 4, 6>> >>,
       << <<3>>, <<3>> >> >>

\* masked_fill_sample_generator: the three values are drawn before the first
\* yield; each sample draws pred (bool, no gradient) and then a
masked_fill_step(g, r, cap) ==
    LET k       == g.k + 1
        first   == g.state = "created"
        numbers == IF first
                   THEN [i \in 1..Len(masked_fill_cases) |->
                            make_number_at(g.dtype, r + i - 1)]
                   ELSE g.numbers
        r1      == IF first THEN r + Len(masked_fill_cases) ELSE r
    IN  IF k > Len(masked_fill_cases) THEN Ran(Finished(g), StopIteration, 0)
        ELSE IF \/ make_tensor_raises(masked_fill_cases[k][1], FALSE, cap)
                \/ make_tensor_raises(masked_fill_cases[k][2], FALSE, cap)
        THEN Ran(Finished(g), Raise("RuntimeError"), r1 - r)
        ELSE Ran([g EXCEPT !.k = k, !.state = "suspended", !.numbers = numbers],
                 Sample(SampleInput(
                     << make_at(g, 2 * k, masked_fill_cases[k][2], g.dtype,
                                g.requires_grad, r1 + 1),
                        make_at(g, 2 * k - 1, masked_fill_cases[k][1], "torch.bool",
                                FALSE, r1),
                        numbers[k] >>, NoKwargs)),
                 r1 - r + 2)

\* inshape, outshape, dims, ex_info
broadcast_in_dim_error_cases ==
    << << <<2, 2>>, <<2, 2>>, <<1, 0>>, "RuntimeError" >>,
       << <<3, 2, 2>>, <<3, 2, 2>>, <<0, 1>>, "RuntimeError" >>,
       << <<3, 2, 2>>, <<3, 2, 2>>, <<0, 1, 2, 3>>, "RuntimeError" >>,
       << <<3, 2, 2>>, <<6, 2, 2>>, <<0, 1, 2>>, "RuntimeError" >>,
       << <<3, 2, 2>>, <<3, 1, 2>>, <<0, 1, 2>>, "RuntimeError" >> >>

\* as broadcast_in_dim_error_step: the operator is applied to the invalid sample,
\* and rejects it
broadcast_in_dim_error_step_applied(g, r, cap) ==
    LET k == g.k + 1
    IN  IF k > Len(broadcast_in_dim_error_cases) THEN Ran(Finished(g), StopIteration, 0)
        ELSE Ran(Finished(g), Raise(broadcast_in_dim_error_cases[k][4]), 1)

\* broadcast_in_dim_error_generator: for each case,
\* (SampleInput(make(inshape), outshape, dims), ex_info)
broadcast_in_dim_error_step(g, r, cap) ==
    LET k == g.k + 1
    IN  IF k > Len(broadcast_in_dim_error_cases) THEN Ran(Finished(g), StopIteration, 0)
        ELSE IF make_tensor_raises(broadcast_in_dim_error_cases[k][1], FALSE, cap)
        THEN Ran(Finished(g), Raise("RuntimeError"), 0)
        ELSE Ran([g EXCEPT !.k = k, !.state = "suspended"],
                 Sample(<< SampleInput(
                               << make_at(g, k, broadcast_in_dim_error_cases[k][1],
                                          "torch.float32", FALSE, r),
                                  Tuple(broadcast_in_dim_error_cases[k][2]),
                                  Tuple(broadcast_in_dim_error_cases[k][3]) >>, NoKwargs),
                           broadcast_in_dim_error_cases[k][4] >>),
                 1)

\* name x shape
benchmark_cases ==
    << << "8x8", <<8, 8>> >>,
       << "64x64", <<64, 64>> >>,
       << "1024x1024", <<1024, 1024>> >> >>

\* elementwise_unary_benchmarks: for each case, (name, SampleInput(make_arg(shape)))
elementwise_unary_benchmarks_step(g, r, cap) ==
    LET k == g.k + 1
    IN  IF k > Len(benchmark_cases) THEN Ran(Finished(g), StopIteration, 0)
        ELSE IF make_tensor_raises(benchmark_cases[k][2], FALSE, cap)
        THEN Ran(Finished(g), Raise("RuntimeError"), 0)
        ELSE Ran([g EXCEPT !.k = k, !.state = "suspended"],
                 Sample(<< benchmark_cases[k][1],
                           SampleInput(<< make_at(g, k, benchmark_cases[k][2], g.dtype,
                                                  g.requires_grad, r) >>, NoKwargs) >>),
                 1)

\* the tensor make_arg builds for the k-th tensor sample of the unary generator:
\* its shape, and whether noncontiguous=True is passed
unary_made(k) ==
    IF k <= Len(shapes) THEN [shape |-> shapes[k], noncontiguous |-> FALSE]
    ELSE IF k <= 2 * Len(shapes)
    THEN [shape |-> shapes[k - Len(shapes)], noncontiguous |-> TRUE]
    ELSE [shape |-> <<500>>, noncontiguous |-> FALSE]

\* elementwise_unary_generator, g a UnaryFrame: the samples of UnaryNext, each
\* tensor and the scalar drawn when it is made
elementwise_unary_step(g0, r, cap) ==
    LET g == IF g0.state = "created"
             THEN [g0 EXCEPT !.low = unary_low(g0.op), !.high = unary_high(g0.op),
                             !.state = "suspended"]
             ELSE g0
        k == g.k + 1
    IN  IF k <= UnaryTensorSamples
        THEN IF make_tensor_raises(unary_made(k).shape, unary_made(k).noncontiguous, cap)
             THEN Ran(Finished(g), Raise("RuntimeError"), 0)
             ELSE Ran([g EXCEPT !.k = k],
                      Sample(SampleInput(<<Drawn(unary_tensor_sample(g, k).args[1], r)>>,
                                         NoKwargs)),
                      1)
        ELSE IF k = UnaryTensorSamples + 1 /\ unary_scalar_case(g)
        THEN Ran([g EXCEPT !.k = k],
                 Sample(SampleInput(
                     <<Num(item(make_tensor(<<>>, "cpu", g.dtype, FALSE, g.low, g.high,
                                            FALSE, g.exclude_zero), r))>>, NoKwargs)),
                 1)
        ELSE Ran(Finished(g), StopIteration, 0)

\* pred_shape, a_shape, b_shape
where_cases ==
    << << <<5>>, <<5>>, <<5>> >>,
       << <<2, 1, 2>>, <<1, 2, 2>>, <<2, 2, 1>> >> >>

\* as where_step, pred made as make(pred_shape) makes it
where_step_plain_pred(g, r, cap) ==
    LET k == g.k + 1
    IN  IF k > Len(where_cases) THEN Ran(Finished(g), StopIteration, 0)
        ELSE Ran([g EXCEPT !.k = k, !.state = "suspended"],
                 Sample(SampleInput(
                     << make_at(g, 3 * k - 2, where_cases[k][1], g.dtype, g.requires_grad, r),
                        make_at(g, 3 * k - 1, where_cases[k][2], g.dtype,
                                g.requires_grad, r + 1),
                        make_at(g, 3 * k, where_cases[k][3], g.dtype,
                                g.requires_grad, r + 2) >>, NoKwargs)),
                 3)

\* where_sample_generator: each sample draws pred (bool, no gradient), a and b
where_step(g, r, cap) ==
    LET k == g.k + 1
    IN  IF k > Len(where_cases) THEN Ran(Finished(g), StopIteration, 0)
        ELSE IF \E j \in 1..3 : make_tensor_raises(where_cases[k][j], FALSE, cap)
        THEN Ran(Finished(g), Raise("RuntimeError"), 0)
        ELSE Ran([g EXCEPT !.k = k, !.state = "suspended"],
                 Sample(SampleInput(
                     << make_at(g, 3 * k - 2, where_cases[k][1], "torch.bool", FALSE, r),
                        make_at(g, 3 * k - 1, where_cases[k][2], g.dtype,
                                g.requires_grad, r + 1),
                        make_at(g, 3 * k, where_cases[k][3], g.dtype,
                                g.requires_grad, r + 2) >>, NoKwargs)),
                 3)

\* tensor shape, shape
reshape_cases ==
    << << <<4, 2>>, <<2, -1, 2>> >>,
       << <<4, 7, 9, 1, 1>>, <<1, 4, 3, -1, 1>> >> >>

reversible_cases ==
    << << <<4>>, <<4>> >>,
       << <<2, 2, 2>>, <<4, 2>> >>,
       << <<125>>, <<25, 5>> >>,
       << <<25, 25>>, <<1, 5, 5, 1, 5, 1, 5, 1>> >>,
       << <<16, 32>>, <<2, 4, 1, 4, 4, 1, 4>> >>,
       << <<16, 12>>, <<12, 16>> >>,
       << <<1, 16, 12>>, <<12, 16>> >>,
       << <<1, 5, 1, 5>>, <<25, 1>> >>,
       << <<2, 4, 2>>, <<4, 4>> >>,
       << <<1, 4>>, <<1, 1, 2, 1, 2>> >>,
       << <<3, 5, 7>>, <<7, 5, 3>> >>,
       << <<4, 5, 6>>, <<4, 5, 6, 1, 1, 1>> >> >>

\* as reshape_case, the pairs not reversed
reshape_case_forward(k) ==
    IF k <= Len(reshape_cases) THEN reshape_cases[k]
    ELSE reversible_cases[((k - Len(reshape_cases) - 1) \div 2) + 1]

\* the tensor shape and the shape of the k-th sample of reshape_sample_generator:
\* the cases, then each reversible case followed by its reverse
reshape_case(k) ==
    IF k <= Len(reshape_cases) THEN reshape_cases[k]
    ELSE LET m == k - Len(reshape_cases) - 1
             c == reversible_cases[(m \div 2) + 1]
         IN  IF m % 2 = 0 THEN c ELSE <<c[2], c[1]>>

\* reshape_sample_generator: SampleInput(make(tensor_shape), shape)
reshape_step(g, r, cap) ==
    LET k == g.k + 1
    IN  IF k > Len(reshape_cases) + 2 * Len(reversible_cases)
        THEN Ran(Finished(g), StopIteration, 0)
        ELSE IF make_tensor_raises(reshape_case(k)[1], FALSE, cap)
        THEN Ran(Finished(g), Raise("RuntimeError"), 0)
        ELSE Ran([g EXCEPT !.k = k, !.state = "suspended"],
                 Sample(SampleInput(
                     << make_at(g, k, reshape_case(k)[1], g.dtype, g.requires_grad, r),
                        Tuple(reshape_case(k)[2]) >>, NoKwargs)),
                 1)

\* reduction_sample_generator, one case a pull
reduction_step(g, r, cap) ==
    LET k == g.k + 1
    IN  IF k > Len(reduction_cases) THEN Ran(Finished(g), StopIteration, 0)
        ELSE IF make_tensor_raises(reduction_cases[k][1], FALSE, cap)
        THEN Ran(Finished(g), Raise("RuntimeError"), 0)
        ELSE Ran([g EXCEPT !.k = k, !.state = "suspended"],
                 Sample(reduction_sample(g.device, g.dtype, g.requires_grad, k)),
                 1)

\* next() on a generator object: a finished generator gives StopIteration, any
\* other runs its body
step(g, r, cap) ==
    IF g.state = "exhausted" THEN Ran(g, StopIteration, 0)
    ELSE CASE g.fn = "pad_sample_generator" -> pad_step(g, r, cap)
           [] g.fn = "masked_fill_sample_generator" -> masked_fill_step(g, r, cap)
           [] g.fn = "broadcast_in_dim_error_generator" ->
                  broadcast_in_dim_error_step(g, r, cap)
           [] g.fn = "elementwise_unary_benchmarks" ->
                  elementwise_unary_benchmarks_step(g, r, cap)
           [] g.fn = "elementwise_unary_generator" -> elementwise_unary_step(g, r, cap)
           [] g.fn = "where_sample_generator" -> where_step(g, r, cap)
           [] g.fn = "reshape_sample_generator" -> reshape_step(g, r, cap)
           [] g.fn = "reduction_sample_generator" -> reduction_step(g, r, cap)

----------------------------------------------------------------------------
(* The queries of OpInfo.  A query is given as the record after the call    *)
(* and the outcome of the call.                                             *)

Return(value) == [kind |-> "return", value |-> value]

Called(self, out) == [self |-> self, out |-> out]

\* calling a generator function (or a partial of one): the generator object
generator_object(f, op, device, dtype, requires_grad) ==
    IF f.fn = "elementwise_unary_generator"
    THEN UnaryFrame(UnaryOp(op.name, op.domain, f.supports_numbers, f.exclude_zero),
                    device, dtype, requires_grad)
    ELSE Frame(f.fn, device, dtype, requires_grad)

\* as sample_inputs: the translated dtype kept on the record
sample_inputs_keeps_dtype(self, device_type, dtype, requires_grad) ==
    Called([self EXCEPT !._dtypes = Tuple(<<Dtype(dtype)>>)],
           Return(generator_object(self.sample_input_generator, self, device_type,
                                   torch_dtype(dtype), requires_grad)))

\* as sample_inputs: the body of the generator run at the call, to its first
\* yield or exception
sample_inputs_eager(self, device_type, dtype, requires_grad) ==
    LET g == generator_object(self.sample_input_generator, self, device_type,
                              torch_dtype(dtype), requires_grad)
        x == step(g, rng, capacity)
    IN  Called(self, IF x.out.kind = "raise" THEN x.out ELSE Return(x.seq))

\* OpInfo.sample_inputs: dtype = torch_dtype(dtype) binds the local name; the
\* generator function is called, which runs none of its body
sample_inputs(self, device_type, dtype, requires_grad) ==
    Called(self, Return(generator_object(self.sample_input_generator, self, device_type,
                                         torch_dtype(dtype), requires_grad)))

\* as error_inputs, a record without error generator giving a sequence that is empty
error_inputs_empty(self, device) ==
    IF IsNone(self.error_input_generator)
    THEN Called(self, Return(Finished(Frame("none", device, "torch.float32", FALSE))))
    ELSE Called(self, Return(generator_object(self.error_input_generator, self, device,
                                              "torch.float32", FALSE)))

\* OpInfo.error_inputs; calling the None of a record without error generator
\* raises TypeError
error_inputs(self, device) ==
    IF IsNone(self.error_input_generator) THEN Called(self, Raise("TypeError"))
    ELSE Called(self, Return(generator_object(self.error_input_generator, self, device,
                                              "torch.float32", FALSE)))

\* OpInfo.benchmarks
benchmarks(self, device_type, dtype, requires_grad) ==
    IF IsNone(self.benchmark_generator) THEN Called(self, Raise("TypeError"))
    ELSE Called(self, Return(generator_object(self.benchmark_generator, self, device_type,
                                              torch_dtype(dtype), requires_grad)))

\* OpInfo.device_types: set(self._devicetypes)
device_types(self) ==
    Called(self, Return(PySet({ self._devicetypes.val[i] :
                                   i \in 1..Len(self._devicetypes.val) })))

\* as dtypes: the resolved set kept on the record in place of the declaration
dtypes_caches(self, device_type) ==
    IF ~IsNone(device_type) THEN Called(self, Raise("NotImplementedError"))
    ELSE Called([self EXCEPT !._dtypes = PySet(resolve_dtypes(self._dtypes))],
                Return(PySet(resolve_dtypes(self._dtypes))))

\* OpInfo.dtypes
dtypes(self, device_type) ==
    IF ~IsNone(device_type) THEN Called(self, Raise("NotImplementedError"))
    ELSE Called(self, Return(PySet(resolve_dtypes(self._dtypes))))

----------------------------------------------------------------------------
(* Consumers querying the registered records and pulling from the sample    *)
(* sequences they are given                                                 *)

\* the draws the process makes at most
MaxDraws == 8

\* the records whose sample generator is among the bodies above
SampledNames == {"abs", "pad", "masked_fill"}

\* the records a consumer asks for sample, error and benchmark sequences of: the
\* first consumer of any, the second of pad, the sequences of which are short
SampledBy(c) == IF c = "w1" THEN SampledNames ELSE {"pad"}

ErrorsBy(c) == IF c = "w1" THEN {"broadcast_in_dim", "pad"} ELSE {}

BenchmarkedBy(c) == IF c = "w1" THEN {"abs", "pad"} ELSE {}

SeqDtypes == {"float32"}

\* the place of the record of the name in the registry
RecordIndex(name) == CHOOSE i \in 1..Len(opinfos) : opinfos[i].name = name

SeqInit ==
    /\ nvFuser_version = MinNvFuserPatch
    /\ torch_version = MinTorchMinor
    /\ test_directives = LoadedDirectives(nvFuser_version, torch_version)
    /\ call = [op |-> "none", name |-> "", directives |-> <<>>, c |-> None]
    /\ ret = [kind |-> "none", value |-> FALSE]
    /\ gen = [fn |-> "none"]
    /\ yielded = [kind |-> "none"]
    /\ delivered = <<>>
    /\ opinfos = LoadedOpinfos
    /\ rng = 0
    /\ capacity \in Capacities
    /\ consumers = [c \in Consumers |-> IdleConsumer]
    /\ loading = [phase |-> "done"]
    /\ transform = [op |-> "none"]

\* what a consumer holds after a query that returned a sequence or raised
Holding(out, r) ==
    IF out.kind = "return"
    THEN [seq |-> out.value, fresh |-> out.value, start |-> r, log |-> <<>>,
          before |-> "none", ret |-> [kind |-> "return", value |-> None]]
    ELSE [IdleConsumer EXCEPT !.ret = out]

\* the state that no query and no pull touches, besides the registry
SeqUnchanged ==
    /\ UNCHANGED <<selvars, genvars>>
    /\ UNCHANGED <<capacity, transform, loading>>

\* the pulls logged met an exception
HasRaised(log) == \E j \in 1..Len(log) : log[j].kind = "raise"

\* how the sequence the consumer holds has ended, by an exception or by
\* StopIteration: "none" when it holds none or one that has not ended
Ended(w) ==
    IF w.seq.fn = "none" THEN "none"
    ELSE IF w.seq.state # "exhausted" THEN "none"
    ELSE IF HasRaised(w.log) THEN "raise"
    ELSE "StopIteration"

\* opinfo.sample_inputs(device, dtype) by consumer c, which holds no sequence or
\* one that has ended
SampleInputs(c) ==
    /\ IF consumers[c].seq.fn = "none" THEN TRUE
       ELSE consumers[c].seq.state = "exhausted"
    /\ rng < MaxDraws
    /\ \E n \in SampledBy(c), dtype \in SeqDtypes :
          LET i == RecordIndex(n)
              x == sample_inputs(opinfos[i], "cpu", dtype, FALSE)
          IN  /\ opinfos' = [opinfos EXCEPT ![i] = x.self]
              /\ consumers' = [consumers EXCEPT ![c] =
                                   [Holding(x.out, rng) EXCEPT
                                       !.before = Ended(consumers[c])]]
    /\ UNCHANGED rng
    /\ SeqUnchanged

\* opinfo.error_inputs(device) by consumer c
ErrorInputs(c) ==
    /\ consumers[c].seq.fn = "none"
    /\ rng < MaxDraws
    /\ \E n \in ErrorsBy(c), device \in {"cpu", "cuda"} :
          LET i == RecordIndex(n)
              x == error_inputs(opinfos[i], device)
          IN  /\ opinfos' = [opinfos EXCEPT ![i] = x.self]
              /\ consumers' = [consumers EXCEPT ![c] = Holding(x.out, rng)]
    /\ UNCHANGED rng
    /\ SeqUnchanged

\* opinfo.benchmarks(device, dtype) by consumer c
Benchmarks(c) ==
    /\ consumers[c].seq.fn = "none"
    /\ rng < MaxDraws
    /\ \E n \in BenchmarkedBy(c) :
          LET i == RecordIndex(n)
              x == benchmarks(opinfos[i], "cpu", "float32", FALSE)
          IN  /\ opinfos' = [opinfos EXCEPT ![i] = x.self]
              /\ consumers' = [consumers EXCEPT ![c] = Holding(x.out, rng)]
    /\ UNCHANGED rng
    /\ SeqUnchanged

\* next() by consumer c on the sequence it holds
Pull(c) ==
    /\ consumers[c].seq.fn # "none"
    /\ IF consumers[c].seq.state # "exhausted" THEN TRUE
       ELSE consumers[c].log[Len(consumers[c].log)].kind = "raise"
    /\ LET x == step(consumers[c].seq, rng, capacity)
       IN  /\ rng + x.draws <= MaxDraws
           /\ rng' = rng + x.draws
           /\ consumers' = [consumers EXCEPT ![c].seq = x.seq,
                                             ![c].log = Append(@, x.out)]
    /\ UNCHANGED opinfos
    /\ SeqUnchanged

\* consumer c lets go of its sequence, exhausted or not
Drop(c) ==
    /\ consumers[c].seq.fn # "none"
    /\ consumers' = [consumers EXCEPT ![c] = IdleConsumer]
    /\ UNCHANGED <<opinfos, rng>>
    /\ SeqUnchanged

\* opinfo.device_types() by consumer c
QueryDeviceTypes(c) ==
    /\ consumers[c].seq.fn = "none"
    /\ \E n \in {"abs"} :
          LET i == RecordIndex(n)
              x == device_types(opinfos[i])
          IN  /\ opinfos' = [opinfos EXCEPT ![i] = x.self]
              /\ consumers' = [consumers EXCEPT ![c].ret = x.out]
    /\ UNCHANGED rng
    /\ SeqUnchanged

\* opinfo.dtypes() and opinfo.dtypes(device_type) by consumer c
QueryDtypes(c) ==
    /\ consumers[c].seq.fn = "none"
    /\ \E n \in {"abs", "neg"}, d \in 1..2 :
          LET i == RecordIndex(n)
              x == dtypes(opinfos[i], <<None, Str("cpu")>>[d])
          IN  /\ opinfos' = [opinfos EXCEPT ![i] = x.self]
              /\ consumers' = [consumers EXCEPT ![c].ret = x.out]
    /\ UNCHANGED rng
    /\ SeqUnchanged

\* candidates of the test_decorators queries of the consumers
SeqCandidates ==
    { Candidate("test_core_vs_torch_consistency", [name |-> nvFuserName], dev, "complex64") :
        dev \in {"cpu"} }

\* opinfo.test_decorators(...) by consumer c
QueryTestDecorators(c) ==
    /\ consumers[c].seq.fn = "none"
    /\ \E n \in {"pow", "prod"}, cand \in SeqCandidates :
          consumers' = [consumers EXCEPT ![c].ret =
                           Outcome(test_decorators_raises(test_directives[n], cand),
                                   PyList(test_decorators(test_directives[n], cand)))]
    /\ UNCHANGED <<opinfos, rng>>
    /\ SeqUnchanged

SeqNext ==
    \E c \in Consumers :
        \/ SampleInputs(c)
        \/ ErrorInputs(c)
        \/ Benchmarks(c)
        \/ Pull(c)
        \/ Drop(c)
        \/ QueryDeviceTypes(c)
        \/ QueryDtypes(c)
        \/ QueryTestDecorators(c)

SpecSeq == SeqInit /\ [][SeqNext]_vars

----------------------------------------------------------------------------
(* Properties of the sample sequences *)

SampleGenerators ==
    {"pad_sample_generator", "masked_fill_sample_generator", "elementwise_unary_generator"}

\* a leaf of a sample as far as determinism speaks of it: of a tensor its shape,
\* any other leaf itself
ShapeOrParameter(leaf) ==
    IF leaf.kind = "tensor" THEN [kind |-> "tensor", shape |-> leaf.shape] ELSE leaf

\* two outcomes of pulls on sample sequences agree in shapes and parameters
SameShapesAndParameters(o1, o2) ==
    /\ o1.kind = o2.kind
    /\ o1.kind = "sample" =>
          /\ Len(o1.value.args) = Len(o2.value.args)
          /\ \A i \in 1..Len(o1.value.args) :
                ShapeOrParameter(o1.value.args[i]) = ShapeOrParameter(o2.value.args[i])
          /\ o1.value.kwargs = o2.value.kwargs

\* C11: two invocations of a sample generator with identical arguments yield
\* sequences of equal length whose samples are pairwise equal in tensor shapes and
\* in all non-tensor parameters, the scalars drawn during generation included.
C11_SameArgumentsSameSamples ==
    \A c1, c2 \in Consumers :
        (/\ consumers[c1].seq.fn \in SampleGenerators
         /\ consumers[c1].fresh = consumers[c2].fresh)
        => /\ \A k \in 1..Len(consumers[c1].log) :
                 k <= Len(consumers[c2].log) =>
                     SameShapesAndParameters(consumers[c1].log[k], consumers[c2].log[k])
           /\ (/\ consumers[c1].seq.state = "exhausted"
               /\ consumers[c2].seq.state = "exhausted")
              => Len(consumers[c1].log) = Len(consumers[c2].log)

RECURSIVE AloneRun(_, _, _, _)
\* what the first n pulls on the generator object g give when no other draw is
\* made between them, r draws having gone before the first
AloneRun(g, r, cap, n) ==
    IF n = 0 THEN <<>>
    ELSE LET x == step(g, r, cap)
         IN  <<x.out>> \o AloneRun(x.seq, r + x.draws, cap, n - 1)

\* C12: under any interleaving of pulls, each sequence delivers the samples
\* (count, order, shapes, parameters, element values) it would deliver if it were
\* consumed alone; no pull on one sequence changes what another delivers.
C12_SequencesIndependent ==
    \A c \in Consumers :
        consumers[c].seq.fn # "none" =>
            consumers[c].log =
                AloneRun(consumers[c].fresh, consumers[c].start, capacity,
                         Len(consumers[c].log))

----------------------------------------------------------------------------
(* Queries and the registration state *)

\* C13: no query of a record (sample_inputs, error_inputs, benchmarks,
\* device_types, dtypes, test_decorators) and no pull on a sequence it returned
\* writes the registry, a field of a record (name, domain, dtype categories, device
\* types, generators) or a directive list.
C13_QueriesWriteNothing ==
    [][opinfos' = opinfos /\ test_directives' = test_directives]_vars

\* C13 witness: one consumer has been answered a dtype query with a set while the
\* other has pulled a sample from a sequence a record gave it
C13_Witness ==
    /\ consumers["w1"].ret.kind = "return"
    /\ consumers["w1"].ret.value.kind = "set"
    /\ Len(consumers["w2"].log) >= 1
    /\ consumers["w2"].log[1].kind = "sample"
    /\ opinfos = LoadedOpinfos

----------------------------------------------------------------------------
(* A generator that raises *)

\* the shape of the first tensor argument of the first sample of a sample generator
FirstShape(fn) ==
    CASE fn = "elementwise_unary_generator" -> shapes[1]
      [] fn = "pad_sample_generator" -> pad_cases[1][1]
      [] fn = "masked_fill_sample_generator" -> masked_fill_cases[1][2]

\* C19: when a sample generator raises while producing its k-th sample, the
\* sample_inputs call has returned normally before (the sequence is lazy), the
\* k-1 samples delivered before stay as they were, the exception of make_tensor
\* reaches the caller of the k-th pull as it is, no further case is tried, every
\* later pull gives StopIteration and draws nothing, the registry is unchanged, and
\* a new sample_inputs call gives a sequence no statement of which has run and
\* whose first pull gives the first sample.
C19_RaisingGenerator ==
    [][\A c \in Consumers :
        LET old == consumers[c]
            new == consumers'[c]
        IN  /\ (/\ old.seq.fn \in SampleGenerators
                /\ new.fresh = old.fresh
                /\ Len(new.log) = Len(old.log) + 1
                /\ new.log[Len(new.log)].kind = "raise")
               => /\ old.ret = Return(None)
                  /\ old.fresh.state = "created"
                  /\ \A j \in 1..Len(old.log) :
                        old.log[j].kind = "sample" /\ new.log[j] = old.log[j]
                  /\ new.log[Len(new.log)] = Raise("RuntimeError")
                  /\ make_tensor_raises(unary_made(Len(new.log)).shape,
                                        unary_made(Len(new.log)).noncontiguous, capacity)
                  /\ new.seq.state = "exhausted"
                  /\ new.seq.k = old.seq.k
                  /\ opinfos' = opinfos
            /\ (/\ old.seq.fn \in SampleGenerators
                /\ HasRaised(old.log)
                /\ new.fresh = old.fresh
                /\ Len(new.log) > Len(old.log))
               => /\ new.log = Append(old.log, StopIteration)
                  /\ rng' = rng
                  /\ opinfos' = opinfos
            /\ (/\ old.seq.fn \in SampleGenerators
                /\ HasRaised(old.log)
                /\ new.seq.fn # "none"
                /\ new.log = <<>>)
               => /\ new.before = "raise"
                  /\ new.seq.state = "created"
                  /\ new.seq.k = 0
                  /\ new.seq = new.fresh
                  /\ opinfos' = opinfos
            /\ (/\ new.seq.fn \in SampleGenerators
                /\ new.before = "raise"
                /\ old.log = <<>>
                /\ Len(new.log) = 1)
               => /\ new.log[1].kind = "sample"
                  /\ new.log[1].value.args[1].shape = FirstShape(new.seq.fn)
                  /\ new.seq.k = 1
      ]_vars

\* C19 witness: a consumer whose sequence of abs raised has asked abs for samples
\* again and been given the first sample and the second, on a device with room for
\* the small tensors only
C19_Witness ==
    /\ consumers["w1"].before = "raise"
    /\ consumers["w1"].seq.fn = "elementwise_unary_generator"
    /\ Len(consumers["w1"].log) = 2
    /\ consumers["w1"].log[2].kind = "sample"
    /\ make_tensor_raises(unary_made(4).shape, unary_made(4).noncontiguous, capacity)

----------------------------------------------------------------------------
(* Expected failures as data *)

\* C20: error_inputs of broadcast_in_dim returns a sequence, for either device,
\* that delivers exactly 5 pairs (SampleInput, error kind), each with the error
\* kind as its second component, and then ends: no pull on it gives an exception.
C20_ErrorInputsAreData ==
    \A c \in Consumers :
        consumers[c].seq.fn = "broadcast_in_dim_error_generator" =>
            LET log == consumers[c].log
            IN  /\ consumers[c].ret = Return(None)
                /\ \A j \in 1..Len(log) :
                      IF j <= 5
                      THEN /\ log[j].kind = "sample"
                           /\ Len(log[j].value) = 2
                           /\ Len(log[j].value[1].args) = 3
                           /\ log[j].value[1].args[1].kind = "tensor"
                           /\ log[j].value[1].args[1].device = consumers[c].seq.device
                           /\ log[j].value[2] = "RuntimeError"
                      ELSE log[j] = StopIteration
                /\ consumers[c].seq.state = "exhausted" <=> Len(log) > 5

\* C20 witness: a consumer has pulled the error sequence of broadcast_in_dim on
\* the cuda device to its end
C20_Witness ==
    /\ consumers["w1"].seq.fn = "broadcast_in_dim_error_generator"
    /\ consumers["w1"].seq.device = "cuda"
    /\ consumers["w1"].seq.state = "exhausted"
    /\ Len(consumers["w1"].log) = 6
    /\ consumers["w1"].log[5].kind = "sample"
    /\ consumers["w1"].log[6] = StopIteration

----------------------------------------------------------------------------
(* Registration after module load: records are constructed and appended to  *)
(* opinfos, and the registered records are asked for their dtypes           *)

\* the records appended after module load, at most
MaxRegistered == 2

\* the arguments the records are constructed with
RegOps == {"abs", "cbrt"}

RegNames == {None, Str("cbrt")}

RegDtypes ==
    { PySet({"float32", "int64"}),
      Tuple(<<Dtype("float16"), Category(signedinteger)>>) }

RegDomains ==
    { <<Num(-1 * UnitsPerOne), Num(1 * UnitsPerOne)>>,
      <<Num(1 * UnitsPerOne), Num(-1 * UnitsPerOne)>> }

\* the records asked for their dtypes: abs and neg, and the records appended
\* since module load
RegQueried ==
    {RecordIndex("abs"), RecordIndex("neg")}
        \cup ((Len(LoadedOpinfos) + 1)..Len(opinfos))

RegInit ==
    /\ nvFuser_version = MinNvFuserPatch
    /\ torch_version = MinTorchMinor
    /\ test_directives = LoadedDirectives(nvFuser_version, torch_version)
    /\ call = [op |-> "none"]
    /\ ret = [kind |-> "none", value |-> None]
    /\ gen = [fn |-> "none"]
    /\ yielded = [kind |-> "none"]
    /\ delivered = <<>>
    /\ ExtInit

\* the state that neither registration nor a query touches
RegUnchanged ==
    /\ UNCHANGED <<nvFuser_version, torch_version, test_directives>>
    /\ UNCHANGED genvars
    /\ UNCHANGED <<rng, capacity, consumers, transform, loading>>

\* OpInfo(op, name=, dtypes=, sample_input_generator=, domain=): __init__ holds no
\* raise statement and assigns what it is given
Construct ==
    /\ \E op \in RegOps, name \in RegNames, ds \in RegDtypes, domain \in RegDomains :
          /\ call' = [op |-> "OpInfo"]
          /\ ret' = Return(OpInfo(Op(op), name, None, ds,
                                  Function("elementwise_unary_generator"), None, None,
                                  domain))
    /\ UNCHANGED opinfos
    /\ RegUnchanged

\* opinfos.append(record), of the record constructed last
Register ==
    /\ call.op = "OpInfo"
    /\ Len(opinfos) < Len(LoadedOpinfos) + MaxRegistered
    /\ opinfos' = Append(opinfos, ret.value)
    /\ call' = [op |-> "append"]
    /\ ret' = Return(None)
    /\ RegUnchanged

\* opinfos[i].dtypes() and opinfos[i].dtypes(device_type)
Dtypes ==
    /\ \E i \in RegQueried, device_type \in {None, Str("cpu")} :
          LET x == dtypes(opinfos[i], device_type)
          IN  /\ opinfos' = [opinfos EXCEPT ![i] = x.self]
              /\ call' = [op |-> "dtypes", i |-> i, device_type |-> device_type]
              /\ ret' = x.out
    /\ RegUnchanged

\* opinfo.test_decorators(...) of pow and prod, which calls is_active of each of
\* their directives
RegTestDecorators ==
    /\ \E n \in {"pow", "prod"}, cand \in SeqCandidates :
          /\ call' = [op |-> "test_decorators", name |-> n]
          /\ ret' = Outcome(test_decorators_raises(test_directives[n], cand),
                            PyList(test_decorators(test_directives[n], cand)))
    /\ UNCHANGED opinfos
    /\ RegUnchanged

RegNext ==
    \/ Construct
    \/ Register
    \/ Dtypes
    \/ RegTestDecorators

SpecReg == RegInit /\ [][RegNext]_vars

\* both bounds of the domain are present and low > high
Malformed(domain) ==
    /\ ~IsNone(domain.low)
    /\ ~IsNone(domain.high)
    /\ NumLt(domain.high, domain.low)

\* C14: constructing a record whose domain has both bounds present and low > high
\* ends in an error, and no record that exists, registered or not, has such a domain.
C14_MalformedDomainRejected ==
    /\ \A i \in 1..Len(opinfos) : ~Malformed(opinfos[i].domain)
    /\ call.op = "OpInfo" => (ret.kind = "return" => ~Malformed(ret.value.domain))

\* C15: no two records of the registry have the same name, after module load and
\* after any registrations; registering a name that is present fails and leaves
\* the registry as it was.
C15_NamesUnique ==
    \A i, j \in 1..Len(opinfos) : i # j => opinfos[i].name # opinfos[j].name

\* the dtype filter of every matcher is absent or a set of concrete dtypes
FiltersResolved ==
    \A n \in DOMAIN test_directives :
        \A i \in 1..Len(test_directives[n]) :
            \/ IsNone(test_directives[n][i].dtypes)
            \/ /\ test_directives[n][i].dtypes.kind = "set"
               /\ test_directives[n][i].dtypes.val \subseteq AllDtypes

----------------------------------------------------------------------------
(* Tensors with their storage, and noncontiguous_like.  A tensor reads the  *)
(* element at an index from its storage at offset + sum of index * stride.  *)

\* a tensor on the cpu device: storage holds Num, PyInt or PyBool elements
StridedTensor(dtype, requires_grad, shape, strides, offset, storage) ==
    [kind          |-> "tensor",
     device        |-> "cpu",
     dtype         |-> dtype,
     requires_grad |-> requires_grad,
     shape         |-> shape,
     strides       |-> strides,
     offset        |-> offset,
     storage       |-> storage]

\* math.nan
NaN == [kind |-> "nan", val |-> 0]

\* a torch.dtype object
TorchDtype(d) == [kind |-> "torch.dtype", val |-> d]

RECURSIVE ContiguousStrides(_)
\* the strides of a newly allocated tensor of the shape (row-major)
ContiguousStrides(shape) ==
    IF shape = <<>> THEN <<>>
    ELSE <<Numel(Tail(shape))>> \o ContiguousStrides(Tail(shape))

RECURSIVE ContiguousFrom(_, _, _, _)
\* dimensions d, d-1, ..., 1 lie in memory as a row-major tensor would, z being the
\* stride expected of dimension d; a dimension of size 1 is not looked at
ContiguousFrom(shape, strides, d, z) ==
    IF d = 0 THEN TRUE
    ELSE IF shape[d] = 1 THEN ContiguousFrom(shape, strides, d - 1, z)
    ELSE IF strides[d] = z THEN ContiguousFrom(shape, strides, d - 1, z * shape[d])
    ELSE FALSE

\* Tensor.is_contiguous(); a tensor without elements is contiguous
is_contiguous(t) ==
    IF Numel(t.shape) = 0 THEN TRUE
    ELSE ContiguousFrom(t.shape, t.strides, Len(t.shape), 1)

RECURSIVE Unravel(_, _)
\* the index of the j-th element (from 0) of a tensor of the shape, row-major
Unravel(j, shape) ==
    IF shape = <<>> THEN <<>>
    ELSE <<j \div Numel(Tail(shape))>> \o Unravel(j % Numel(Tail(shape)), Tail(shape))

\* the indices of a tensor of the shape
Indices(shape) == { Unravel(j, shape) : j \in 0..(Numel(shape) - 1) }

RECURSIVE Dot(_, _)
Dot(index, strides) ==
    IF index = <<>> THEN 0
    ELSE Head(index) * Head(strides) + Dot(Tail(index), Tail(strides))

\* t[index]
Element(t, index) == t.storage[t.offset + Dot(index, t.strides) + 1]

is_floating_point(d) == d \in {"torch.float32", "torch.bfloat16"}

is_complex(d) == d = "torch.complex64"

\* as noncontiguous_like: result[..., 0] taken for the result
noncontiguous_like_filler(t) ==
    IF ~is_contiguous(t) THEN t
    ELSE LET value == IF is_floating_point(t.dtype) \/ is_complex(t.dtype) THEN NaN
                      ELSE IF t.dtype = "torch.bool" THEN PyBool(TRUE)
                      ELSE PyInt(12)
             wide  == t.shape \o <<2>>
         IN  StridedTensor(t.dtype, t.requires_grad, t.shape,
                           SubSeq(ContiguousStrides(wide), 1, Len(t.shape)), 0,
                           [p \in 1..Numel(wide) |->
                               IF p % 2 = 1 THEN value
                               ELSE Element(t, Unravel(p \div 2 - 1, t.shape))])

\* noncontiguous_like: a tensor that is not contiguous is returned; otherwise a
\* tensor of shape t.shape + (2,) is allocated, [..., 0] filled with a value of
\* the dtype that is not to be read and [..., 1] with the elements of t, and
\* [..., 1] of it is the result, with the requires_grad of t
noncontiguous_like(t) ==
    IF ~is_contiguous(t) THEN t
    ELSE LET value == IF is_floating_point(t.dtype) \/ is_complex(t.dtype) THEN NaN
                      ELSE IF t.dtype = "torch.bool" THEN PyBool(TRUE)
                      ELSE PyInt(12)
             wide  == t.shape \o <<2>>
         IN  StridedTensor(t.dtype, t.requires_grad, t.shape,
                           SubSeq(ContiguousStrides(wide), 1, Len(t.shape)), 1,
                           [p \in 1..Numel(wide) |->
                               IF p % 2 = 1 THEN value
                               ELSE Element(t, Unravel(p \div 2 - 1, t.shape))])

----------------------------------------------------------------------------
(* The derived copies of a SampleInput *)

\* the module was loaded with JAX: jnp is bound and _torch_to_jax_dtype_map a dict
\* of these keys; without JAX the name jnp is unbound and the map is None
JaxDtypes ==
    {"torch.bool", "torch.uint8", "torch.int8", "torch.int16", "torch.int32",
     "torch.int64", "torch.bfloat16", "torch.float16", "torch.float32",
     "torch.float64", "torch.complex64", "torch.complex128"}

to_noncontiguous(t) ==
    IF t.kind = "tensor" THEN noncontiguous_like(t)
    ELSE IF t.kind = "torch.dtype" THEN t
    ELSE t

\* the exception to_jax(t) raises, "none" when it returns: Tensor.numpy() refuses a
\* tensor that requires grad (RuntimeError) and a bfloat16 tensor (TypeError)
to_jax_raises(t, JAX_AVAILABLE) ==
    IF t.kind = "tensor"
    THEN IF ~JAX_AVAILABLE THEN "NameError"
         ELSE IF t.requires_grad THEN "RuntimeError"
         ELSE IF t.dtype = "torch.bfloat16" THEN "TypeError"
         ELSE "none"
    ELSE IF t.kind = "torch.dtype"
    THEN IF ~JAX_AVAILABLE THEN "TypeError"
         ELSE IF t.val \notin JaxDtypes THEN "KeyError"
         ELSE "none"
    ELSE "none"

\* to_jax(t) when it returns: jnp.array of the elements, the jnp dtype of the name
to_jax(t) ==
    IF t.kind = "tensor"
    THEN [kind   |-> "jax.Array",
          dtype  |-> t.dtype,
          shape  |-> t.shape,
          values |-> [j \in 1..Numel(t.shape) |-> Element(t, Unravel(j - 1, t.shape))]]
    ELSE IF t.kind = "torch.dtype" THEN [kind |-> "jnp.dtype", val |-> t.val]
    ELSE t

to_thunder(t) ==
    IF t.kind = "torch.dtype" THEN Dtype(thunder_dtype(t.val))
    ELSE t

IsContainer(x) == x.kind \in {"tuple", "list"}

RECURSIVE tree_map(_, _)
\* tree_map(fn, x): fn on every leaf of x, the containers kept
tree_map(fn, x) ==
    IF IsContainer(x)
    THEN [x EXCEPT !.val = [i \in 1..Len(x.val) |-> tree_map(fn, x.val[i])]]
    ELSE CASE fn = "to_noncontiguous" -> to_noncontiguous(x)
           [] fn = "to_jax" -> to_jax(x)
           [] fn = "to_thunder" -> to_thunder(x)

RECURSIVE Leaves(_)
\* the leaves of x in the order tree_map visits them
Leaves(x) ==
    IF IsContainer(x)
    THEN IF x.val = <<>> THEN <<>>
         ELSE Leaves(x.val[1]) \o Leaves([x EXCEPT !.val = Tail(x.val)])
    ELSE <<x>>

\* the leaves of a SampleInput: those of args, then those of the values of kwargs
SampleLeaves(s) ==
    Leaves(Tuple(s.args)) \o Leaves(Tuple([i \in 1..Len(s.kwargs) |-> s.kwargs[i][2]]))

\* tree_map(fn, self.args), tree_map(fn, self.kwargs) and SampleInput(*args, **kwargs)
Derived(fn, self) ==
    SampleInput([i \in 1..Len(self.args) |-> tree_map(fn, self.args[i])],
                [i \in 1..Len(self.kwargs) |->
                    <<self.kwargs[i][1], tree_map(fn, self.kwargs[i][2])>>])

\* SampleInput.noncontiguous
noncontiguous(self) == Called(self, Return(Derived("to_noncontiguous", self)))

\* SampleInput.jax: the first leaf to_jax raises on ends the call
jax(self, JAX_AVAILABLE) ==
    LET leaves == SampleLeaves(self)
        raising == { i \in 1..Len(leaves) : to_jax_raises(leaves[i], JAX_AVAILABLE) # "none" }
    IN  IF raising = {} THEN Called(self, Return(Derived("to_jax", self)))
        ELSE Called(self, Raise(to_jax_raises(
                 leaves[CHOOSE i \in raising : \A j \in raising : i <= j], JAX_AVAILABLE)))

\* SampleInput.thunder
thunder(self) == Called(self, Return(Derived("to_thunder", self)))

----------------------------------------------------------------------------
(* Samples and the copies derived of them *)

\* the SampleInput objects made, at most: the sample and its copies
MaxObjects == 3

\* the leaves the samples are made of
DeriveLeaves ==
    << StridedTensor("torch.float32", TRUE, <<2, 2>>, <<2, 1>>, 0,
                     <<Num(-150), Num(0), Num(25), Num(300)>>),
       StridedTensor("torch.int64", FALSE, <<3>>, <<1>>, 0,
                     <<PyInt(12), PyInt(-4), PyInt(0)>>),
       StridedTensor("torch.float32", FALSE, <<2>>, <<2>>, 0,
                     <<Num(100), Num(200), Num(300), Num(400)>>),
       StridedTensor("torch.bool", FALSE, <<>>, <<>>, 0, <<PyBool(FALSE)>>),
       StridedTensor("torch.float32", FALSE, <<0>>, <<1>>, 0, <<>>),
       TorchDtype("torch.float32"),
       PyInt(1),
       None,
       PyList(<< StridedTensor("torch.int64", FALSE, <<3>>, <<1>>, 0,
                               <<PyInt(12), PyInt(-4), PyInt(0)>>),
                 TorchDtype("torch.int64"),
                 PyInt(0) >>) >>

\* the keyword arguments the samples are made with
DeriveKwargs ==
    << NoKwargs,
       << <<"dtype", TorchDtype("torch.float32")>> >>,
       << <<"dim", PyInt(0)>>, <<"out", DeriveLeaves[3]>> >> >>

DeriveInit ==
    /\ nvFuser_version = MinNvFuserPatch
    /\ torch_version = MinTorchMinor
    /\ test_directives = LoadedDirectives(nvFuser_version, torch_version)
    /\ call = [op |-> "none"]
    /\ ret = [kind |-> "none", value |-> None]
    /\ gen = [fn |-> "none"]
    /\ yielded = [kind |-> "none"]
    /\ delivered = <<>>
    /\ opinfos = LoadedOpinfos
    /\ rng = 0
    /\ capacity = AmpleCapacity
    /\ consumers = [c \in Consumers |-> IdleConsumer]
    /\ loading = [phase |-> "done"]
    /\ \E a \in 1..Len(DeriveLeaves), b \in 0..Len(DeriveLeaves),
          k \in 1..Len(DeriveKwargs), JAX_AVAILABLE \in BOOLEAN :
          transform =
              [op            |-> "none",
               JAX_AVAILABLE |-> JAX_AVAILABLE,
               self          |-> SampleInput(IF b = 0 THEN <<DeriveLeaves[a]>>
                                             ELSE <<DeriveLeaves[a], DeriveLeaves[b]>>,
                                             DeriveKwargs[k]),
               self_id       |-> 1,
               out           |-> [kind |-> "none", value |-> None],
               out_id        |-> 0,
               objects       |-> 1]

DeriveUnchanged ==
    /\ UNCHANGED <<selvars, genvars>>
    /\ UNCHANGED <<opinfos, rng, capacity, consumers, loading>>

\* what a call of a transform leaves: the receiver after it, its outcome, and the
\* new object when it returned one
AfterCall(op, x) ==
    [transform EXCEPT
        !.op      = op,
        !.self    = x.self,
        !.out     = x.out,
        !.out_id  = IF x.out.kind = "return" THEN transform.objects + 1 ELSE 0,
        !.objects = IF x.out.kind = "return" THEN @ + 1 ELSE @]

\* a further SampleInput may be made
MayCopy == transform.objects < MaxObjects

\* self.noncontiguous()
Noncontiguous ==
    /\ MayCopy
    /\ transform.op = "none"
    /\ transform' = AfterCall("noncontiguous", noncontiguous(transform.self))
    /\ DeriveUnchanged

\* self.jax()
Jax ==
    /\ MayCopy
    /\ transform.op = "none"
    /\ transform' = AfterCall("jax", jax(transform.self, transform.JAX_AVAILABLE))
    /\ DeriveUnchanged

\* self.thunder()
Thunder ==
    /\ MayCopy
    /\ transform.op = "none"
    /\ transform' = AfterCall("thunder", thunder(transform.self))
    /\ DeriveUnchanged

\* s = s.noncontiguous() and s = s.thunder(): the copy becomes the receiver
Rebind ==
    /\ transform.op \in {"noncontiguous", "thunder"}
    /\ transform.out.kind = "return"
    /\ transform' = [transform EXCEPT !.op = "none",
                                      !.self = transform.out.value,
                                      !.self_id = transform.out_id,
                                      !.out = [kind |-> "none", value |-> None],
                                      !.out_id = 0]
    /\ DeriveUnchanged

DeriveNext ==
    \/ Noncontiguous
    \/ Jax
    \/ Thunder
    \/ Rebind

SpecDerive == DeriveInit /\ [][DeriveNext]_vars

\* the keys of keyword arguments
Keys(kwargs) == { kwargs[i][1] : i \in 1..Len(kwargs) }

\* C16: s.noncontiguous() has as many positional arguments as s and the same
\* keyword keys; each tensor leaf of s stands in the result as a tensor of the same
\* shape and requires_grad whose element at every index is the element of the
\* leaf (no filler value is read through it); a leaf that is not contiguous
\* stands in the result as it is.
C16_NoncontiguousKeepsValues ==
    transform.op = "noncontiguous" =>
        /\ transform.out.kind = "return"
        /\ LET s  == transform.self
               r  == transform.out.value
               ls == SampleLeaves(s)
               lr == SampleLeaves(r)
           IN  /\ Len(r.args) = Len(s.args)
               /\ Len(r.kwargs) = Len(s.kwargs)
               /\ Keys(r.kwargs) = Keys(s.kwargs)
               /\ Len(lr) = Len(ls)
               /\ \A i \in 1..Len(ls) :
                     ls[i].kind = "tensor" =>
                         /\ lr[i].kind = "tensor"
                         /\ lr[i].shape = ls[i].shape
                         /\ lr[i].requires_grad = ls[i].requires_grad
                         /\ \A index \in Indices(ls[i].shape) :
                               Element(lr[i], index) = Element(ls[i], index)
                         /\ ~is_contiguous(ls[i]) => lr[i] = ls[i]

\* C16 witness: the copy of a sample holding the contiguous 2 x 2 tensor that
\* requires grad and a tensor that is not contiguous: the first is replaced by a
\* tensor that is not contiguous and has the filler in its storage
C16_Witness ==
    /\ transform.op = "noncontiguous"
    /\ Len(transform.self.args) = 2
    /\ transform.self.args[1] = DeriveLeaves[1]
    /\ transform.self.args[2] = DeriveLeaves[3]
    /\ transform.out.kind = "return"
    /\ ~is_contiguous(transform.out.value.args[1])
    /\ transform.out.value.args[1].storage[1] = NaN
    /\ transform.out.value.args[1].requires_grad

\* C17: noncontiguous(), jax() and thunder() each return a new SampleInput and
\* leave the args and kwargs of the receiver as they were; every leaf of the result
\* that is neither a tensor nor a dtype in the receiver is the leaf of the receiver
\* at its place; thunder() leaves the tensor leaves and noncontiguous() the dtype
\* leaves as they are.
C17_TransformsReturnCopies ==
    [][transform'.op \in {"noncontiguous", "jax", "thunder"} =>
          /\ transform'.self = transform.self
          /\ transform'.out.kind = "return"
          /\ transform'.out_id # transform'.self_id
          /\ transform'.out_id > transform.objects
          /\ LET ls == SampleLeaves(transform.self)
                 lr == SampleLeaves(transform'.out.value)
             IN  /\ Len(lr) = Len(ls)
                 /\ \A i \in 1..Len(ls) :
                       /\ ls[i].kind \notin {"tensor", "torch.dtype"} => lr[i] = ls[i]
                       /\ (transform'.op = "thunder" /\ ls[i].kind = "tensor")
                             => lr[i] = ls[i]
                       /\ (transform'.op = "noncontiguous" /\ ls[i].kind = "torch.dtype")
                             => lr[i] = ls[i]
      ]_vars

----------------------------------------------------------------------------
(* push_away_from_singularities.  Distances smaller than eps do not show on  *)
(* the grid of hundredths, so here a value is a whole number of             *)
(* ten-thousandths: UnitsPerOne * UnitsPerOne to one.                       *)

\* eps in ten-thousandths
FineEps == eps * UnitsPerOne

\* torch.pi / 2 in ten-thousandths
HalfPi == 15708

\* torch.round(x / y), y > 0: the nearest whole number, a half to the even one
round_div(x, y) ==
    LET q == x \div y
        r == x - q * y
    IN  IF 2 * r < y THEN q
        ELSE IF 2 * r > y THEN q + 1
        ELSE IF q % 2 = 0 THEN q ELSE q + 1

\* round_remainder(x, y) = x - torch.round(x / y) * y
round_remainder(x, y) == x - round_div(x, y) * y

\* as push_away_from_singularities: the distances taken again after the first
\* nudge
push_away_from_singularities_again(x, period, e) ==
    LET x_dist  == [i \in 1..Len(x) |-> round_remainder(x[i], period)]
        x_      == [i \in 1..Len(x) |->
                       IF x_dist[i] > 0 /\ x_dist[i] < e THEN x[i] + e ELSE x[i]]
        x_dist2 == [i \in 1..Len(x) |-> round_remainder(x_[i], period)]
    IN  [i \in 1..Len(x) |->
            IF x_dist2[i] < 0 /\ x_dist2[i] > -e THEN x_[i] - e ELSE x_[i]]

\* push_away_from_singularities(x, singularity_fn, eps), for the tensor x of the
\* elements x[1], x[2], ... and singularity_fn = lambda x: round_remainder(x, period)
push_away_from_singularities(x, period, e) ==
    LET x_dist == [i \in 1..Len(x) |-> round_remainder(x[i], period)]
        x_     == [i \in 1..Len(x) |->
                      IF x_dist[i] > 0 /\ x_dist[i] < e THEN x[i] + e ELSE x[i]]
    IN  [i \in 1..Len(x) |->
            IF x_dist[i] < 0 /\ x_dist[i] > -e THEN x[i] - e ELSE x_[i]]

\* the elements of the tensors pushed lie in -MaxPushed..MaxPushed
MaxPushed == 450

\* the distances between the singularities of the functions tried: 1.5 * eps,
\* 4 * eps, 5 * eps and pi / 2
PushPeriods == {FineEps + FineEps \div 2, 4 * FineEps, 5 * FineEps, HalfPi}

\* second elements of the tensors pushed: on a singularity, just above one, just
\* below one, far from any
PushSeconds == {0, 1, -1, FineEps}

PushInit ==
    /\ nvFuser_version = MinNvFuserPatch
    /\ torch_version = MinTorchMinor
    /\ test_directives = LoadedDirectives(nvFuser_version, torch_version)
    /\ \E a \in (-MaxPushed)..MaxPushed, b \in PushSeconds, period \in PushPeriods :
          call = [op |-> "none", x |-> <<a, b>>, period |-> period]
    /\ ret = [kind |-> "none", value |-> None]
    /\ gen = [fn |-> "none"]
    /\ yielded = [kind |-> "none"]
    /\ delivered = <<>>
    /\ ExtInit

\* push_away_from_singularities(x, lambda x: round_remainder(x, period), eps)
PushAway ==
    /\ call.op = "none"
    /\ call' = [call EXCEPT !.op = "push_away_from_singularities"]
    /\ ret' = Return(push_away_from_singularities(call.x, call.period, FineEps))
    /\ UNCHANGED <<nvFuser_version, torch_version, test_directives>>
    /\ UNCHANGED <<genvars, extvars>>

PushNext == PushAway

SpecPush == PushInit /\ [][PushNext]_vars

\* the distance of v from the nearest multiple of the period is at least e
AwayFromSingularities(v, period, e) ==
    \/ round_remainder(v, period) >= e
    \/ round_remainder(v, period) <= -e

----------------------------------------------------------------------------
(* Operators with singularities *)

\* self.singularity_fn of the record of the operator: None, or for
\* lambda x: round_remainder(x, p) the p, in ten-thousandths
singularity_fn(op) == IF op.name = "tan" THEN Num(HalfPi) ELSE None

\* C21: every tensor sample the generator yields for an operator that declares a
\* singularity_fn (tan) has gone through push_away_from_singularities: none of
\* the values an element of it may have lies strictly within eps of a singularity.
C21_SamplesPushedAway ==
    \A j \in 1..Len(delivered) :
        (/\ gen.fn = "elementwise_unary_generator"
         /\ ~IsNone(singularity_fn(gen.op))
         /\ delivered[j].args[1].kind = "tensor")
        => \A v \in TensorValues(delivered[j].args[1]) :
              AwayFromSingularities(v * UnitsPerOne, singularity_fn(gen.op).val, FineEps)

----------------------------------------------------------------------------
(* The samples of elementwise_unary_generator, in order *)

RECURSIVE LargestOffset(_, _)
\* the largest storage offset a view of the shape and strides addresses, less its
\* own offset: every index at its greatest
LargestOffset(shape, strides) ==
    IF shape = <<>> THEN 0
    ELSE (Head(shape) - 1) * Head(strides) + LargestOffset(Tail(shape), Tail(strides))

\* the tensor is a strided view that stays within the buffer it was made with
WithinStorage(t) ==
    t.offset + LargestOffset(t.shape, t.strides.val) < t.storage

\* C23: elementwise_unary_generator yields, in order, a contiguous tensor for each of
\* the shapes (), (11,), (4, 4), (1024, 1024), (64, 64, 64), a noncontiguous tensor for
\* each of the same shapes, six strided views, each of a 500-element buffer of its own
\* and addressing only offsets below 500, and then one scalar exactly when
\* supports_numbers holds and the dtype is not complex: 17 samples, or 16.
C23_UnarySampleOrder ==
    gen.fn = "elementwise_unary_generator" =>
        /\ \A j \in 1..Len(delivered) :
              LET a == delivered[j].args[1]
              IN  /\ Len(delivered[j].args) = 1
                  /\ delivered[j].kwargs = NoKwargs
                  /\ j <= 5 =>
                        /\ a.kind = "tensor" /\ a.shape = shapes[j]
                        /\ ~a.noncontiguous /\ IsNone(a.strides)
                  /\ (j > 5 /\ j <= 10) =>
                        /\ a.kind = "tensor" /\ a.shape = shapes[j - 5]
                        /\ a.noncontiguous /\ IsNone(a.strides)
                  /\ (j > 10 /\ j <= 16) =>
                        /\ a.kind = "tensor" /\ a.storage = 500
                        /\ a.shape = strided_cases[j - 10][1]
                        /\ a.strides = Tuple(strided_cases[j - 10][2])
                        /\ a.offset = strided_cases[j - 10][3]
                        /\ WithinStorage(a)
                        /\ \A i \in 1..Len(delivered) :
                              (i # j /\ delivered[i].args[1].kind = "tensor")
                                  => delivered[i].args[1].id # a.id
                  /\ j = 17 =>
                        /\ a.kind = "num"
                        /\ gen.supports_numbers
                        /\ gen.dtype # "torch.complex64"
                  /\ j <= 17
        /\ gen.state = "exhausted" =>
              Len(delivered) = IF gen.supports_numbers /\ gen.dtype # "torch.complex64"
                               THEN 17 ELSE 16

\* all 17 samples of a real dtype delivered and the generator exhausted
C23_Witness ==
    /\ gen.fn = "elementwise_unary_generator"
    /\ gen.state = "exhausted"
    /\ gen.dtype = "torch.float32"
    /\ Len(delivered) = 17
    /\ delivered[17].args[1].kind = "num"
    /\ delivered[16].args[1].shape = <<9, 5, 2>>

----------------------------------------------------------------------------
(* The load of the module: the statements that build the category lists and  *)
(* opinfos, in the order of the file.  A record is held by reference: its    *)
(* position in the sequence of the records constructed.                      *)

\* the category lists, in the order of their definition and of the extend calls
Categories ==
    << elementwise_unary_ops, elementwise_binary_ops, elementwise_ternary_ops, shape_ops,
       reduction_ops, tensor_creation_ops, matmul_ops, nn_ops >>

\* the class the i-th record of category c is constructed with: abs_opinfo is the
\* one ElementwiseUnaryOpInfo
ClassOf(c, i) == IF c = 1 /\ i = 1 THEN "ElementwiseUnaryOpInfo" ELSE "OpInfo"

\* the construction of the record is followed by <category>.append(record): every
\* one but abs_opinfo
AppendFollows(c, i) == ~(c = 1 /\ i = 1)

\* as constructor_appends, for no class
constructor_appends_never(class) == FALSE

\* the constructor appends self to elementwise_unary_ops
constructor_appends(class) == class = "ElementwiseUnaryOpInfo"

\* opinfos = []
LoadInit ==
    /\ nvFuser_version = MinNvFuserPatch
    /\ torch_version = MinTorchMinor
    /\ test_directives = LoadedDirectives(nvFuser_version, torch_version)
    /\ call = [op |-> "none"]
    /\ ret = [kind |-> "none", value |-> None]
    /\ gen = [fn |-> "none"]
    /\ yielded = [kind |-> "none"]
    /\ delivered = <<>>
    /\ opinfos = <<>>
    /\ rng = 0
    /\ capacity = AmpleCapacity
    /\ consumers = [w \in Consumers |-> IdleConsumer]
    /\ transform = [op |-> "none"]
    /\ loading = [phase |-> "list", c |-> 1, i |-> 0, constructed |-> <<>>,
                  lists |-> [c \in 1..Len(Categories) |-> <<>>]]

LoadUnchanged ==
    /\ UNCHANGED <<selvars, genvars>>
    /\ UNCHANGED <<rng, capacity, consumers, transform>>

\* the statement after the i-th record of category c is constructed and appended
AfterRecord(c, i) ==
    IF i < Len(Categories[c]) THEN [phase |-> "construct", i |-> i + 1]
    ELSE [phase |-> "extend", i |-> i]

\* <category> = []
NewList ==
    /\ loading.phase = "list"
    /\ loading' = [loading EXCEPT !.lists[loading.c] = <<>>, !.phase = "construct", !.i = 1]
    /\ UNCHANGED opinfos
    /\ LoadUnchanged

\* <name>_opinfo = OpInfo(...), or ElementwiseUnaryOpInfo(...)
LoadConstruct ==
    /\ loading.phase = "construct"
    /\ LET c    == loading.c
           i    == loading.i
           self == Len(loading.constructed) + 1
           next == IF AppendFollows(c, i) THEN [phase |-> "append", i |-> i]
                   ELSE AfterRecord(c, i)
       IN  loading' = [loading EXCEPT
                          !.constructed = Append(@, Categories[c][i]),
                          !.lists[1] = IF constructor_appends(ClassOf(c, i))
                                       THEN Append(@, self) ELSE @,
                          !.phase = next.phase,
                          !.i = next.i]
    /\ UNCHANGED opinfos
    /\ LoadUnchanged

\* <category>.append(<name>_opinfo), of the record constructed last
LoadAppend ==
    /\ loading.phase = "append"
    /\ LET c == loading.c
           i == loading.i
       IN  loading' = [loading EXCEPT
                          !.lists[c] = Append(@, Len(loading.constructed)),
                          !.phase = AfterRecord(c, i).phase,
                          !.i = AfterRecord(c, i).i]
    /\ UNCHANGED opinfos
    /\ LoadUnchanged

\* opinfos.extend(<category>)
LoadExtend ==
    /\ loading.phase = "extend"
    /\ opinfos' = opinfos \o loading.lists[loading.c]
    /\ loading' = IF loading.c < Len(Categories)
                  THEN [loading EXCEPT !.c = @ + 1, !.phase = "list", !.i = 0]
                  ELSE [loading EXCEPT !.phase = "done"]
    /\ LoadUnchanged

LoadNext ==
    \/ NewList
    \/ LoadConstruct
    \/ LoadAppend
    \/ LoadExtend

SpecLoad == LoadInit /\ [][LoadNext]_vars

\* s is a prefix of t
IsPrefix(s, t) == Len(s) <= Len(t) /\ SubSeq(t, 1, Len(s)) = s

\* the number of positions of the list that hold x
Occurrences(list, x) == Cardinality({j \in 1..Len(list) : list[j] = x})

RECURSIVE Concatenated(_, _)
\* the lists from the c-th on, one after the other
Concatenated(lists, c) ==
    IF c > Len(lists) THEN <<>> ELSE lists[c] \o Concatenated(lists, c + 1)

\* the records the references of the list stand for
Dereferenced(list) == [j \in 1..Len(list) |-> loading.constructed[list[j]]]

\* after the load opinfos is the category lists one after the other, every record
\* constructed is in one category list and once in opinfos, and opinfos holds the
\* records of the registry
LoadedAsListed ==
    loading.phase = "done" =>
        /\ opinfos = Concatenated(loading.lists, 1)
        /\ \A r \in 1..Len(loading.constructed) :
              /\ Occurrences(opinfos, r) = 1
              /\ Cardinality({c \in 1..Len(Categories) :
                                 Occurrences(loading.lists[c], r) > 0}) = 1
              /\ \A c \in 1..Len(Categories) : Occurrences(loading.lists[c], r) <= 1
        /\ \A c \in 1..Len(Categories) : Dereferenced(loading.lists[c]) = Categories[c]
        /\ Dereferenced(opinfos) = LoadedOpinfos

\* a step of the load leaves what opinfos and the category lists hold in place
OnlyAppends ==
    /\ IsPrefix(opinfos, opinfos')
    /\ \A c \in 1..Len(Categories) : IsPrefix(loading.lists[c], loading'.lists[c])

\* C24: when the module is loaded opinfos is the concatenation of the category lists
\* in the order unary, binary, ternary, shape, reduction, creation, matmul, nn; every
\* record constructed is in exactly one category list and exactly once in opinfos, abs
\* (appended by its constructor) included; and the assembly only appends.
C24_RegistryAssembly == [](LoadedAsListed) /\ [][OnlyAppends]_vars

\* the module is loaded: abs, constructed first, is the first record of opinfos
C24_Witness ==
    /\ loading.phase = "done"
    /\ Len(loading.constructed) = 83
    /\ Len(opinfos) = 83
    /\ loading.constructed[opinfos[1]].name = "abs"
    /\ loading.constructed[opinfos[83]].name = "embedding"

----------------------------------------------------------------------------
(* Selection under an environment that changes after the module is loaded *)

\* the version nvFuser().version() or torch.__version__ reports becomes another one;
\* no matcher is constructed or registered
EnvChange ==
    /\ call.op = "none"
    /\ \E nv \in MinNvFuserPatch..MaxNvFuserPatch, tv \in MinTorchMinor..MaxTorchMinor :
          /\ <<nv, tv>> # <<nvFuser_version, torch_version>>
          /\ nvFuser_version' = nv
          /\ torch_version' = tv
    /\ UNCHANGED <<test_directives, call, ret>>
    /\ UNCHANGED <<genvars, extvars>>

EnvNext == IsActiveRegistered \/ TestDecorators \/ SelReturn \/ EnvChange

SpecEnv == GenInit /\ [][EnvNext]_vars

\* the matcher as its constructor call would make it now: the active_if expression
\* evaluated under the versions of the moment
AsOfNow(n, self) ==
    { d \in { LoadedDirectives(nvFuser_version, torch_version)[n][i] :
                 i \in 1..Len(test_directives[n]) } :
        [d EXCEPT !.active_if = self.active_if] = self }

\* C25: the active_if of a registered matcher is a deferred boolean read when a
\* selection is made: is_active and test_decorators answer by the value its version
\* comparison has at the call, also after the version has changed, with no matcher
\* registered anew.
C25_ActiveIfDeferred ==
    /\ (call.op = "test_decorators" /\ ret.kind = "return") =>
          ret.value = test_decorators(
                          LoadedDirectives(nvFuser_version, torch_version)[call.name], call.c)
    /\ (call.op = "is_active" /\ call.name \in RecordNames /\ ret.kind = "return") =>
          \E d \in AsOfNow(call.name, call.directives[1]) :
              ret.value = is_active(d, call.c)

----------------------------------------------------------------------------
(* The generators that run over a table of cases: masked_fill, where,      *)
(* reshape and the reductions, pulled one sample at a time                 *)

MaxCaseDraws == 30

CaseGenerators ==
    {"masked_fill_sample_generator", "where_sample_generator",
     "reshape_sample_generator", "reduction_sample_generator"}

\* opinfo.sample_inputs(device, dtype, requires_grad=) on masked_fill_opinfo,
\* where_opinfo, reshape_opinfo or a record of reduction_sample_generator
CaseSampleInputs ==
    /\ gen.fn = "none"
    /\ \E fn \in CaseGenerators, device \in GenDevices, dtype \in GenDtypes,
          requires_grad \in BOOLEAN :
           gen' = Frame(fn, device, torch_dtype(dtype), requires_grad)
    /\ yielded' = [kind |-> "none"]
    /\ delivered' = <<>>
    /\ SelUnchanged

\* next() on the generator
CaseNext ==
    /\ gen.fn \in CaseGenerators
    /\ gen.state # "exhausted"
    /\ LET x == step(gen, rng, capacity)
       IN  /\ rng + x.draws <= MaxCaseDraws
           /\ gen' = x.seq
           /\ yielded' = x.out
           /\ delivered' = IF x.out.kind = "sample" THEN Append(delivered, x.out.value)
                           ELSE delivered
           /\ rng' = rng + x.draws
    /\ UNCHANGED selvars
    /\ UNCHANGED <<opinfos, capacity, consumers, transform, loading>>

CasesNext == CaseSampleInputs \/ CaseNext \/ GenClose

SpecCases == GenInit /\ [][CasesNext]_vars

\* a sample of the generator has just been delivered
CaseYielded(fn) == gen.fn = fn /\ yielded.kind = "sample"

\* the tensor is one of the values: of the dtype and requires_grad asked for
ValueTensor(t) ==
    /\ t.kind = "tensor"
    /\ t.dtype = gen.dtype
    /\ t.requires_grad = gen.requires_grad

\* the tensor is a predicate: boolean, without gradient
PredicateTensor(t) ==
    /\ t.kind = "tensor"
    /\ t.dtype = "torch.bool"
    /\ ~t.requires_grad

\* C26: in every sample of masked_fill_sample_generator and where_sample_generator,
\* whatever dtype and requires_grad were asked for, the predicate tensor is boolean
\* and does not require grad and the value tensors have the dtype and requires_grad
\* asked for; the predicate is the second positional argument of a masked_fill sample
\* and the first of a where sample.
C26_PredicateBoolNoGrad ==
    /\ CaseYielded("masked_fill_sample_generator") =>
          /\ Len(yielded.value.args) = 3
          /\ ValueTensor(yielded.value.args[1])
          /\ PredicateTensor(yielded.value.args[2])
          /\ yielded.value.args[3].kind = "num"
    /\ CaseYielded("where_sample_generator") =>
          /\ Len(yielded.value.args) = 3
          /\ PredicateTensor(yielded.value.args[1])
          /\ ValueTensor(yielded.value.args[2])
          /\ ValueTensor(yielded.value.args[3])

\* a where sample asked for with an integer dtype and requires_grad
C26_Witness ==
    /\ CaseYielded("where_sample_generator")
    /\ gen.dtype = "torch.int64"
    /\ gen.requires_grad
    /\ yielded.value.args[1].shape = <<2, 1, 2>>
    /\ yielded.value.args[1].dtype = "torch.bool"

\* the shape with x in the place of its entries -1
Resolved(shape, x) == [i \in 1..Len(shape) |-> IF shape[i] = -1 THEN x ELSE shape[i]]

\* a tensor of the source shape has as many elements as the target shape asks for,
\* an entry -1 of the target standing for the one extent that makes it so
SameCount(source, target) ==
    IF \A i \in 1..Len(target) : target[i] # -1
    THEN Numel(source) = Numel(target)
    ELSE /\ Cardinality({i \in 1..Len(target) : target[i] = -1}) = 1
         /\ Cardinality({x \in 0..Numel(source) :
                            Numel(Resolved(target, x)) = Numel(source)}) = 1

\* C27: reshape_sample_generator yields 2 one-way samples and then, for each of its
\* 12 reversible pairs (A, B), the sample that reshapes a tensor of shape A to B
\* followed at once by the one that reshapes a tensor of shape B to A, 26 samples in
\* all; in every sample source and target have the same number of elements, a -1 of
\* the target standing for the unique extent that makes the counts equal.
C27_ReshapeRoundTrips ==
    gen.fn = "reshape_sample_generator" =>
        /\ Len(delivered) <= 26
        /\ gen.state = "exhausted" /\ yielded.kind = "StopIteration" => Len(delivered) = 26
        /\ \A j \in 1..Len(delivered) :
              /\ Len(delivered[j].args) = 2
              /\ delivered[j].args[1].kind = "tensor"
              /\ delivered[j].args[2].kind = "tuple"
              /\ SameCount(delivered[j].args[1].shape, delivered[j].args[2].val)
              /\ j > 2 => \A i \in 1..Len(delivered[j].args[2].val) :
                              delivered[j].args[2].val[i] # -1
              /\ (j > 2 /\ j % 2 = 0) =>
                    /\ delivered[j].args[1].shape = delivered[j - 1].args[2].val
                    /\ delivered[j].args[2].val = delivered[j - 1].args[1].shape
        /\ Len(delivered) >= 2 =>
              \E i \in 1..Len(delivered[2].args[2].val) : delivered[2].args[2].val[i] = -1

\* all 26 samples delivered; the last reshapes (4, 5, 6, 1, 1, 1) back to (4, 5, 6)
C27_Witness ==
    /\ gen.fn = "reshape_sample_generator"
    /\ gen.state = "exhausted"
    /\ Len(delivered) = 26
    /\ delivered[26].args[1].shape = <<4, 5, 6, 1, 1, 1>>
    /\ delivered[26].args[2].val = <<4, 5, 6>>
    /\ delivered[2].args[2].val = <<1, 4, 3, -1, 1>>

\* C30: reduction_sample_generator yields exactly 7 samples; the tensor of every one,
\* the last included, has the dtype the caller asked for, although the loop rebinds
\* the local name dtype; every sample carries the keyword dtype of its case's
\* override, None for the six four-field cases, and the last sample, (4, 4) with
\* neither dim nor keepdim, carries the dtype the case before left (None), not the
\* caller's.
C30_ReductionDtypeKeyword ==
    gen.fn = "reduction_sample_generator" =>
        /\ Len(delivered) <= 7
        /\ gen.state = "exhausted" /\ yielded.kind = "StopIteration" => Len(delivered) = 7
        /\ \A j \in 1..Len(delivered) :
              /\ delivered[j].args[1].kind = "tensor"
              /\ delivered[j].args[1].dtype = gen.dtype
              /\ delivered[j].args[1].shape = reduction_cases[j][1]
              /\ delivered[j].kwargs = << <<"dtype", None>> >>
              /\ j <= 6 => /\ Len(delivered[j].args) = 3
                           /\ Len(reduction_cases[j]) = 4
                           /\ delivered[j].kwargs[1][2] = reduction_cases[j][4]
              /\ j = 7 => /\ Len(delivered[j].args) = 1
                          /\ delivered[j].args[1].shape = <<4, 4>>
                          /\ delivered[j].kwargs[1][2] # Str(gen.dtype)

\* the seven samples delivered to a caller that asked for torch.int64
C30_Witness ==
    /\ gen.fn = "reduction_sample_generator"
    /\ gen.state = "exhausted"
    /\ gen.dtype = "torch.int64"
    /\ Len(delivered) = 7
    /\ Len(delivered[7].args) = 1
    /\ delivered[7].args[1].dtype = "torch.int64"
    /\ delivered[7].kwargs = << <<"dtype", None>> >>

----------------------------------------------------------------------------
(* Queries for sequences a record may not define, and records constructed   *)
(* with generators of the caller's                                          *)

MaxConstructed == 2

\* the generator arguments a caller may give ElementwiseUnaryOpInfo: none, the
\* default, a generator function of its own
GivenGenerators(default) == << None, Function("custom_generator"), Function(default) >>

\* the records asked for sequences: with a benchmark generator only, with an error
\* generator only, with neither
QueriedNames == {"abs", "broadcast_in_dim", "pad", "neg"}

\* the value of a keyword argument, its default when it is not given
Keyword(given, default) == IF IsNone(given) THEN Function(default) ELSE given

QueryInit ==
    /\ nvFuser_version = MinNvFuserPatch
    /\ torch_version = MinTorchMinor
    /\ test_directives = LoadedDirectives(nvFuser_version, torch_version)
    /\ call = [op |-> "none", i |-> 0, self |-> None, samples |-> None, benchmarks |-> None]
    /\ ret = [kind |-> "none", value |-> None]
    /\ gen = [fn |-> "none"]
    /\ yielded = [kind |-> "none"]
    /\ delivered = <<>>
    /\ opinfos = LoadedOpinfos
    /\ rng = 0
    /\ capacity = AmpleCapacity
    /\ consumers = [w \in Consumers |-> IdleConsumer]
    /\ transform = [op |-> "none"]
    /\ loading = [phase |-> "done", elementwise_unary_ops |-> elementwise_unary_ops]

QueryUnchanged ==
    /\ UNCHANGED <<nvFuser_version, torch_version, test_directives>>
    /\ UNCHANGED genvars
    /\ UNCHANGED <<rng, capacity, consumers, transform>>

\* opinfos[i].error_inputs(device)
QueryErrorInputs ==
    /\ \E n \in QueriedNames, device \in GenDevices :
          LET i == RecordIndex(n)
              x == error_inputs(opinfos[i], device)
          IN  /\ opinfos' = [opinfos EXCEPT ![i] = x.self]
              /\ call' = [op |-> "error_inputs", i |-> i, self |-> opinfos[i],
                          samples |-> None, benchmarks |-> None]
              /\ ret' = x.out
    /\ UNCHANGED loading
    /\ QueryUnchanged

\* opinfos[i].benchmarks(device, dtype)
QueryBenchmarks ==
    /\ \E n \in QueriedNames, device \in GenDevices, dtype \in GenDtypes :
          LET i == RecordIndex(n)
              x == benchmarks(opinfos[i], device, dtype, FALSE)
          IN  /\ opinfos' = [opinfos EXCEPT ![i] = x.self]
              /\ call' = [op |-> "benchmarks", i |-> i, self |-> opinfos[i],
                          samples |-> None, benchmarks |-> None]
              /\ ret' = x.out
    /\ UNCHANGED loading
    /\ QueryUnchanged

\* ElementwiseUnaryOpInfo(op, sample_input_generator=, benchmark_generator=), either
\* keyword given or not
ConstructUnary ==
    /\ Len(loading.elementwise_unary_ops) < Len(elementwise_unary_ops) + MaxConstructed
    /\ \E s \in 1..2, b \in 1..3 :
          LET samples == GivenGenerators("elementwise_unary_generator")[s]
              given   == GivenGenerators("elementwise_unary_benchmarks")[b]
              self    == ElementwiseUnaryOpInfo(
                             Op("abs"),
                             Keyword(samples, "elementwise_unary_generator"),
                             Keyword(given, "elementwise_unary_benchmarks"))
          IN  /\ call' = [op |-> "ElementwiseUnaryOpInfo", i |-> 0, self |-> self,
                          samples |-> samples, benchmarks |-> given]
              /\ ret' = Return(self)
              /\ loading' = [loading EXCEPT !.elementwise_unary_ops = Append(@, self)]
    /\ UNCHANGED opinfos
    /\ QueryUnchanged

\* benchmarks(device, dtype) on the record constructed last
ConstructedBenchmarks ==
    /\ call.op = "ElementwiseUnaryOpInfo"
    /\ LET x == benchmarks(call.self, "cpu", "float32", FALSE)
       IN  /\ call' = [call EXCEPT !.op = "benchmarks", !.self = x.self]
           /\ ret' = x.out
    /\ UNCHANGED <<opinfos, loading>>
    /\ QueryUnchanged

\* sample_inputs(device, dtype) on the record constructed last
ConstructedSampleInputs ==
    /\ call.op = "ElementwiseUnaryOpInfo"
    /\ LET x == sample_inputs(call.self, "cpu", "float32", FALSE)
       IN  /\ call' = [call EXCEPT !.op = "sample_inputs", !.self = x.self]
           /\ ret' = x.out
    /\ UNCHANGED <<opinfos, loading>>
    /\ QueryUnchanged

QueryNext ==
    \/ QueryErrorInputs
    \/ QueryBenchmarks
    \/ ConstructUnary
    \/ ConstructedBenchmarks
    \/ ConstructedSampleInputs

SpecQuery == QueryInit /\ [][QueryNext]_vars

\* C28: error_inputs on a record constructed without an error generator, and
\* benchmarks on one constructed without a benchmark generator, end in an error at the
\* call and never return a sequence, empty or not; the record and the registry are as
\* before the call.
C28_UndefinedSequenceFails ==
    /\ (call.op = "error_inputs" /\ IsNone(call.self.error_input_generator)) =>
          /\ ret.kind = "raise"
          /\ opinfos[call.i] = call.self
          /\ opinfos = LoadedOpinfos
    /\ (call.op = "benchmarks" /\ call.i > 0 /\ IsNone(call.self.benchmark_generator)) =>
          /\ ret.kind = "raise"
          /\ opinfos[call.i] = call.self
          /\ opinfos = LoadedOpinfos

\* pad_opinfo, which has neither generator, asked for its error inputs
C28_Witness ==
    /\ call.op = "error_inputs"
    /\ call.self.name = "pad"
    /\ IsNone(call.self.error_input_generator)
    /\ ret = Raise("TypeError")

\* C29: an ElementwiseUnaryOpInfo constructed with a benchmark_generator g given has
\* benchmarks() call g, as sample_inputs() calls the sample_input_generator given;
\* elementwise_unary_benchmarks is called only when no benchmark_generator is given.
C29_GivenBenchmarkGeneratorUsed ==
    /\ (call.op = "benchmarks" /\ call.i = 0) =>
          /\ ret.kind = "return"
          /\ ret.value.fn = Keyword(call.benchmarks, "elementwise_unary_benchmarks").fn
    /\ (call.op = "sample_inputs" /\ call.i = 0) =>
          /\ ret.kind = "return"
          /\ ret.value.fn = Keyword(call.samples, "elementwise_unary_generator").fn

====
